---- MODULE Spec2Model ----
(***************************************************************************)
(* Model of libdenavit's CrossSection2d.run_ops_analysis                   *)
(* (src/src/libdenavit/cross_section_2d.py): the adaptive continuation     *)
(* controller that drives the OpenSees solver along a proportional or a    *)
(* non-proportional load path, its retry ladder, its four monitors, the    *)
(* recorded response history and the limit-point search.                   *)
(*                                                                         *)
(* The solver (openseespy) is external: one call of ops.analyze(1) either  *)
(* fails, leaving the committed state of the domain as it was, or          *)
(* converges to a new committed state drawn from SolverStates.             *)
(*                                                                         *)
(* Numbers.  Response quantities are small integers.  A step size is kept  *)
(* as the number of times the nominal increment was divided by ten, a      *)
(* convergence tolerance as its power of ten (1e-3 is -3), and the         *)
(* load-drop fraction in percent (0.05 is 5).  A nullable option is a      *)
(* sequence: <<>> is None and <<v>> the value v.                           *)
(***************************************************************************)
EXTENDS Integers, Sequences, FiniteSets, TLC

\* ------------------------------------------------------------------ bounds

\* Increments a continuation loop (`while True`) may start in one path.
MaxIncr == 2
\* Largest vertical-step count (num_steps_vertical) explored.
MaxVertical == 4
\* Largest number of points (num_points) of an interaction sweep.
MaxPoints == 3
\* Largest vertical-step count of the paths of an interaction sweep.
MaxSweepVertical == 1

\* ------------------------------------------------------------------ inputs

None == << >>
Some(v) == << v >>
IsNone(x) == x = << >>
Val(x) == x[1]

\* Committed states of the domain the solver can converge to: the load
\* factor (ops.getTime()), the lowest eigenvalue of the tangent, the two
\* extreme strains the section reports for the nodal displacements, and the
\* element moment ops.eleForce(1, 3).  The load factors are multiples of 6,
\* so that the fractions of the largest of them that run_ops_interaction
\* takes (line 366) are whole numbers for up to four points.
SolverStates ==
  { [time |->  6, eig |->  2, cstrain |->  0, sstrain |-> 0, eleForce |->  1],
    [time |-> 12, eig |->  2, cstrain |->  0, sstrain |-> 0, eleForce |-> -2],
    [time |-> -6, eig |->  2, cstrain |->  0, sstrain |-> 0, eleForce |->  1],
    [time |-> 12, eig |-> -1, cstrain |-> -2, sstrain |-> 0, eleForce |->  2],
    [time |->  6, eig |->  2, cstrain |-> -2, sstrain |-> 2, eleForce |->  1],
    [time |-> 12, eig |->  0, cstrain |->  0, sstrain |-> 2, eleForce |->  2] }

\* States the vertical phase can converge to: two of SolverStates, to keep a
\* phase of MaxVertical steps small.  The second is past the eigenvalue and
\* the concrete-strain thresholds, and from it to the first the load drops.
VerticalStates ==
  { [time |->  6, eig |->  2, cstrain |->  0, sstrain |-> 0, eleForce |-> 1],
    [time |-> 12, eig |-> -1, cstrain |-> -2, sstrain |-> 0, eleForce |-> 2] }

\* The domain right after build_ops_model: nothing applied, nothing deformed.
BuiltState == [time |-> 0, eig |-> 2, cstrain |-> 0, sstrain |-> 0, eleForce |-> 0]

\* Monitor thresholds explored (the defaults of the signature among them).
DropLimits     == { None, Some(5), Some(0) }
EigenLimits    == { None, Some(0), Some(1) }
ConcreteLimits == { None, Some(-1) }
SteelLimits    == { None, Some(1) }
\* Target axial load P of the non-proportional path.
AxialLoads == { 3 }

\* Monitor configurations: every monitor on (with each threshold explored),
\* each monitor switched off alone, and all of them off.
MonitorConfigs ==
  { c \in [drop : DropLimits, eigen : EigenLimits,
           concrete : ConcreteLimits, steel : SteelLimits] :
      LET off == Cardinality({ f \in {"drop", "eigen", "concrete", "steel"} :
                                 IsNone(c[f]) })
      IN  off \in {0, 1, 4} }

VARIABLES
  analysis_type,            \* 'proportional_limit_point' or 'nonproportional_limit_point'
  try_smaller_steps,        \* the retry-ladder flag
  percent_load_drop_limit,  \* nullable, in percent
  eigenvalue_limit,         \* nullable
  concrete_strain_limit,    \* nullable
  steel_strain_limit,       \* nullable
  num_steps_vertical,
  P,
  pc,                       \* where run_ops_analysis is
  rung,                     \* attempt of the current increment: 0 nominal .. 7
  i,                        \* index of the vertical `for` loop
  incr,                     \* increments started by the current `while True`
  load_incr_factor,         \* times the nominal load step was divided by 10
  disp_incr_factor,         \* times the nominal displacement step was divided by 10
  solver,                   \* integrator, algorithm and test set through ops
  domain,                   \* committed state of the OpenSees domain
  results,                  \* the five recorded series
  exit_message,             \* results.exit_message, "" while unset
  maximum,                  \* maximum_applied_axial_load / maximum_time
  attempts,                 \* ops.analyze calls of the current increment
  converged,                \* ops.analyze calls that returned 0, by place:
                            \* the proportional set-up, the vertical loop,
                            \* the continuation loop
  response_peak,            \* history variable: the largest response variable
                            \* (load factor) of the loop's increments so far,
                            \* None before the first
  limit_point,              \* result of find_limit_point, << >> while unset
  printed,                  \* the last 'Changed the step size to' message:
                            \* the size it gives, None before the first
  interaction,              \* run_ops_interaction: where it is, its
                            \* num_points, loop index i and lists P and M,
                            \* and the run_ops_analysis calls it has made
  materials,                \* AciStrainCompatibility._materials, the dict of
                            \* the class: material by name
  instances,                \* the AciStrainCompatibility objects: the
                            \* attributes of each
  point,                    \* the last compute_point call: its arguments,
                            \* what it computed and what it returned or raised
  material_call             \* the last get_stress / beta1 calls on material
                            \* objects: the objects, the strains, the results

vars == << analysis_type, try_smaller_steps, percent_load_drop_limit,
           eigenvalue_limit, concrete_strain_limit, steel_strain_limit,
           num_steps_vertical, P, pc, rung, i, incr, load_incr_factor,
           disp_incr_factor, solver, domain, results, exit_message, maximum,
           attempts, converged, response_peak, limit_point, printed,
           interaction, materials, instances, point, material_call >>

\* The arguments and locals of run_ops_analysis and the OpenSees objects.
path == << analysis_type, try_smaller_steps, percent_load_drop_limit,
           eigenvalue_limit, concrete_strain_limit, steel_strain_limit,
           num_steps_vertical, P, pc, rung, i, incr, load_incr_factor,
           disp_incr_factor, solver, domain, results, exit_message, maximum,
           attempts, converged, response_peak, limit_point, printed >>

\* What run_ops_analysis does not touch.
outside_path == << interaction, materials, instances, point, material_call >>

\* The state of ACI_strain_compatibility.py.
engine == << materials, instances, point, material_call >>

options == << analysis_type, try_smaller_steps, percent_load_drop_limit,
              eigenvalue_limit, concrete_strain_limit, steel_strain_limit,
              num_steps_vertical, P >>

\* ------------------------------------------------------------------ helpers

Last(s) == s[Len(s)]
Max(a, b) == IF a >= b THEN a ELSE b
Abs(a) == IF a < 0 THEN -a ELSE a

\* ops.integrator(...): the control type, the controlled node and degree of
\* freedom (0 under load control), and the increment as <<parameter, n>>:
\* the parameter divided by 10^n.
LoadControl(param, n) ==
  [type |-> "LoadControl", node |-> 0, dof |-> 0, step |-> << param, n >>]
DisplacementControl(node, dof, param, n) ==
  [type |-> "DisplacementControl", node |-> node, dof |-> dof, step |-> << param, n >>]

\* The solver before any ops.integrator / ops.algorithm / ops.test call.
Unconfigured ==
  [integrator |-> [type |-> "", node |-> 0, dof |-> 0, step |-> << "", 0 >>],
   algorithm |-> "", test |-> 0]

EmptyResults ==
  [applied_axial_load |-> << >>, maximum_abs_moment |-> << >>,
   lowest_eigenvalue |-> << >>, maximum_concrete_compression_strain |-> << >>,
   maximum_steel_strain |-> << >>]

\* record(): one entry appended to each series.
Record(res, load, moment, d) ==
  [applied_axial_load |-> Append(res.applied_axial_load, load),
   maximum_abs_moment |-> Append(res.maximum_abs_moment, moment),
   lowest_eigenvalue |-> Append(res.lowest_eigenvalue, d.eig),
   maximum_concrete_compression_strain |->
       Append(res.maximum_concrete_compression_strain, d.cstrain),
   maximum_steel_strain |-> Append(res.maximum_steel_strain, d.sstrain)]

\* record() of the proportional path and of the vertical phase.
RecordTime(res, d) == Record(res, d.time, 0, d)
\* record() of the lateral phase.
RecordLateral(res, d) == Record(res, P, Abs(d.eleForce), d)

\* The history variable response_peak after an increment at load factor t.
Peak(peak, t) == Some(IF IsNone(peak) THEN t ELSE Max(Val(peak), t))

\* One ops.analyze(1) under the configuration cfg, as logged in attempts.
Attempt(cfg, ok) ==
  [integrator |-> cfg.integrator, algorithm |-> cfg.algorithm,
   test |-> cfg.test, ok |-> ok]

\* ACI_strain_compatibility.py is not used: no material is registered, no
\* engine or material object exists, nothing was called.
EngineUnused ==
  /\ materials = << >>
  /\ instances = << >>
  /\ point = << >>
  /\ material_call = << >>

\* run_ops_interaction has not been called.
Idle == [pc |-> "idle", num_points |-> 0, i |-> 0, P |-> << >>, M |-> << >>,
         calls |-> << >>]

\* ------------------------------------------------------------------ Init

Init ==
  /\ analysis_type \in {"proportional_limit_point", "nonproportional_limit_point"}
  /\ try_smaller_steps \in BOOLEAN
  /\ \E c \in MonitorConfigs :
       /\ percent_load_drop_limit = c.drop
       /\ eigenvalue_limit = c.eigen
       /\ concrete_strain_limit = c.concrete
       /\ steel_strain_limit = c.steel
  /\ num_steps_vertical \in
       IF analysis_type = "nonproportional_limit_point" THEN {1, MaxVertical} ELSE {1}
  /\ P \in AxialLoads
  /\ pc = "start"
  /\ rung = 0
  /\ i = 0
  /\ incr = 0
  /\ load_incr_factor = 0
  /\ disp_incr_factor = 0
  /\ solver = Unconfigured
  /\ domain = BuiltState
  /\ results = EmptyResults
  /\ exit_message = ""
  /\ maximum = 0
  /\ attempts = << >>
  /\ converged = [setup |-> 0, vertical |-> 0, loop |-> 0]
  /\ response_peak = None
  /\ limit_point = << >>
  /\ printed = None
  /\ interaction = Idle
  /\ EngineUnused

\* ------------------------------------------------------------------ model

\* Mutant: the model is built without ops.wipe(), on top of what the
\* domain and the analysis objects held.
BuildOpsModel_NoWipe ==
  /\ pc = "start"
  /\ results' = EmptyResults
  /\ pc' = "built"
  /\ UNCHANGED << options, rung, i, incr, load_incr_factor, disp_incr_factor,
                  solver, domain, exit_message, maximum, attempts, converged,
                  response_peak, limit_point, printed, outside_path >>

\* Lines 44-53: build_ops_model (ops.wipe() and the model built anew, lines
\* 13-32) and the empty results.
BuildOpsModel ==
  /\ pc = "start"
  /\ domain' = BuiltState
  /\ solver' = Unconfigured
  /\ results' = EmptyResults
  /\ pc' = "built"
  /\ UNCHANGED << options, rung, i, incr, load_incr_factor, disp_incr_factor,
                  exit_message, maximum, attempts, converged, response_peak,
                  limit_point, printed, outside_path >>

\* ------------------------------------------------------------------ monitors

DropFires(current, mx) ==
  /\ ~IsNone(percent_load_drop_limit)
  /\ current * 100 < (100 - Val(percent_load_drop_limit)) * mx

\* Mutant: the tracker keeps the latest response, not the largest.
UpdateMaximum_KeepsLatest(mx, current) ==
  IF IsNone(percent_load_drop_limit) THEN mx ELSE current

\* The running maximum after an increment whose response variable is current.
UpdateMaximum(mx, current) ==
  IF IsNone(percent_load_drop_limit) THEN mx ELSE Max(mx, current)

\* Mutant: the eigenvalue check sits inside the load-drop block, so a null
\* percent_load_drop_limit switches it off too.
PropMonitors_EigenUnderDrop(res, mx) ==
  IF DropFires(Last(res.applied_axial_load), mx)
    THEN "Load Drop Limit Reached"
  ELSE IF /\ ~IsNone(percent_load_drop_limit)
          /\ ~IsNone(eigenvalue_limit)
          /\ Last(res.lowest_eigenvalue) < Val(eigenvalue_limit)
    THEN "Eigenvalue Limit Reached"
  ELSE IF /\ ~IsNone(concrete_strain_limit)
          /\ Last(res.maximum_concrete_compression_strain) < Val(concrete_strain_limit)
    THEN "Extreme Compressive Concrete Fiber Strain Limit Reached"
  ELSE IF /\ ~IsNone(steel_strain_limit)
          /\ Last(res.maximum_steel_strain) > Val(steel_strain_limit)
    THEN "Extreme Steel Fiber Strain Limit Reached"
  ELSE ""

\* Lines 159-183: the monitors of the proportional loop, "" when none fires.
PropMonitors(res, mx) ==
  IF DropFires(Last(res.applied_axial_load), mx)
    THEN "Load Drop Limit Reached"
  ELSE IF /\ ~IsNone(eigenvalue_limit)
          /\ Last(res.lowest_eigenvalue) < Val(eigenvalue_limit)
    THEN "Eigenvalue Limit Reached"
  ELSE IF /\ ~IsNone(concrete_strain_limit)
          /\ Last(res.maximum_concrete_compression_strain) < Val(concrete_strain_limit)
    THEN "Extreme Compressive Concrete Fiber Strain Limit Reached"
  ELSE IF /\ ~IsNone(steel_strain_limit)
          /\ Last(res.maximum_steel_strain) > Val(steel_strain_limit)
    THEN "Extreme Steel Fiber Strain Limit Reached"
  ELSE ""

\* Lines 318-342: the monitors of the lateral loop, "" when none fires.
LateralMonitors(res, mx, current_time) ==
  IF DropFires(current_time, mx)
    THEN "Load Drop Limit Reached"
  ELSE IF /\ ~IsNone(eigenvalue_limit)
          /\ Last(res.lowest_eigenvalue) < 0
    THEN "Eigenvalue Limit Reached"
  ELSE IF /\ ~IsNone(concrete_strain_limit)
          /\ Last(res.maximum_concrete_compression_strain) < Val(concrete_strain_limit)
    THEN "Extreme Compressive Concrete Fiber Strain Limit Reached"
  ELSE IF /\ ~IsNone(steel_strain_limit)
          /\ Last(res.maximum_steel_strain) > Val(steel_strain_limit)
    THEN "Extreme Steel Fiber Strain Limit Reached"
  ELSE ""

\* ------------------------------------------------------------------ proportional path

\* Lines 79-88: the solver as configured before the proportional loop.
PropDefaults ==
  [integrator |-> LoadControl("load_incr_factor", load_incr_factor),
   algorithm |-> "Newton", test |-> -3]

\* Lines 79-106: set-up, one ops.analyze(1) whose status is not looked at,
\* and the initial record().
PropSetup ==
  /\ pc = "built"
  /\ analysis_type = "proportional_limit_point"
  /\ solver' = PropDefaults
  /\ \/ /\ domain' \in SolverStates
        /\ converged' = [converged EXCEPT !.setup = 1]
     \/ /\ domain' = domain
        /\ converged' = converged
  /\ results' = RecordTime(results, domain')
  /\ maximum' = 0
  /\ pc' = "prop_loop"
  /\ UNCHANGED << options, rung, i, incr, load_incr_factor, disp_incr_factor,
                  exit_message, attempts, response_peak, limit_point, printed,
                  outside_path >>

\* What the attempt of rung k changes in the solver before it calls
\* ops.analyze(1) (lines 111, 115, 119, 126, 134, 139, 144-145).
PropRungConfig(k) ==
  CASE k = 0      -> solver
    [] k \in 1..4 -> [solver EXCEPT !.integrator =
                        LoadControl("load_incr_factor", load_incr_factor + k)]
    [] k = 5      -> [solver EXCEPT !.algorithm = "ModifiedNewton"]
    [] k = 6      -> [solver EXCEPT !.algorithm = "KrylovNewton"]
    [] k = 7      -> [solver EXCEPT !.algorithm = "KrylovNewton", !.test = -2]

\* Mutant: the ladder goes from the last reduced step straight to KrylovNewton.
PropNextRung_SkipsModifiedNewton(k) ==
  IF k = 0 THEN (IF try_smaller_steps THEN 1 ELSE 5)
  ELSE IF k = 4 THEN 6 ELSE k + 1

\* The attempt that follows a failed attempt of rung k (lines 109-146).
PropNextRung(k) ==
  IF k = 0 THEN (IF try_smaller_steps THEN 1 ELSE 5) ELSE k + 1

\* Lines 121-123 and 128-130: the baseline step after rung k converged.
PropBaseline(k) ==
  IF k \in {3, 4} THEN load_incr_factor + 1 ELSE load_incr_factor

\* Lines 123 and 130: 'Changed the step size to: {load_incr_factor}',
\* printed after the baseline was divided.
PropPrinted(k) ==
  IF k \in {3, 4} THEN Some(PropBaseline(k)) ELSE printed

\* Lines 148-152: the reset made after a converged attempt.
PropReset(lif) ==
  [integrator |-> LoadControl("load_incr_factor", lif),
   algorithm |-> "Newton", test |-> -3]

\* ops.analyze(1) of rung k converged to d: lines 148-152 and 157-183.
PropConverged(k, d) ==
  /\ domain' = d
  /\ converged' = [converged EXCEPT !.loop = @ + 1]
  /\ response_peak' = Peak(response_peak, d.time)
  /\ attempts' = Append(IF k = 0 THEN << >> ELSE attempts,
                        Attempt(PropRungConfig(k), TRUE))
  /\ load_incr_factor' = PropBaseline(k)
  /\ printed' = PropPrinted(k)
  /\ solver' = PropReset(load_incr_factor')
  /\ results' = RecordTime(results, d)
  /\ maximum' = UpdateMaximum(maximum, d.time)
  /\ exit_message' = PropMonitors(results', maximum')
  /\ pc' = IF exit_message' = "" THEN "prop_loop" ELSE "find_limit_point"
  /\ rung' = 0

\* ops.analyze(1) of rung k failed: the next rung, or lines 153-155.
PropNotConverged(k) ==
  /\ attempts' = Append(IF k = 0 THEN << >> ELSE attempts,
                        Attempt(PropRungConfig(k), FALSE))
  /\ solver' = PropRungConfig(k)
  /\ IF k = 7
       THEN /\ exit_message' = "Analysis Failed"
            /\ pc' = "find_limit_point"
            /\ rung' = 0
       ELSE /\ rung' = PropNextRung(k)
            /\ UNCHANGED << exit_message, pc >>
  /\ UNCHANGED << domain, converged, response_peak, load_incr_factor, results,
                  maximum, printed >>

PropTry(k) ==
  /\ pc = "prop_loop"
  /\ rung = k
  /\ \/ \E d \in SolverStates : PropConverged(k, d)
     \/ PropNotConverged(k)
  /\ UNCHANGED << options, i, disp_incr_factor, limit_point, outside_path >>

\* Line 108: the nominal attempt of an increment.
PropAnalyze ==
  /\ incr < MaxIncr
  /\ incr' = incr + 1
  /\ PropTry(0)

\* Lines 110-130: the attempts at 1/10, 1/100, 1/1000, 1/10000 of the step.
PropSmallerStep ==
  /\ try_smaller_steps
  /\ \E k \in 1..4 : PropTry(k)
  /\ UNCHANGED incr

\* Lines 132-135.
PropModifiedNewton == PropTry(5) /\ UNCHANGED incr

\* Lines 137-140.
PropKrylovNewton == PropTry(6) /\ UNCHANGED incr

\* Lines 142-146.
PropKrylovNewtonTol == PropTry(7) /\ UNCHANGED incr

\* ------------------------------------------------------------------ non-proportional path

\* Lines 190-199: the solver as configured for the vertical phase.
VerticalDefaults ==
  [integrator |-> LoadControl("P/num_steps_vertical", 0),
   algorithm |-> "Newton", test |-> -3]

\* Lines 190-215: set-up of the vertical phase and its initial record().
NonpropSetup ==
  /\ pc = "built"
  /\ analysis_type = "nonproportional_limit_point"
  /\ solver' = VerticalDefaults
  /\ results' = RecordTime(results, domain)
  /\ i' = 0
  /\ pc' = "vertical"
  /\ UNCHANGED << options, rung, incr, load_incr_factor, disp_incr_factor, domain,
                  exit_message, maximum, attempts, converged, response_peak,
                  limit_point, printed, outside_path >>

\* Mutant: a failed vertical increment is tried again with ModifiedNewton.
VerticalStep_Retries ==
  /\ pc = "vertical"
  /\ i < num_steps_vertical
  /\ \/ \E d \in VerticalStates :
          /\ domain' = d
          /\ converged' = [converged EXCEPT !.vertical = @ + 1]
          /\ attempts' = << Attempt(solver, TRUE) >>
          /\ results' = RecordTime(results, d)
          /\ i' = i + 1
          /\ UNCHANGED << pc, exit_message, solver >>
     \/ /\ attempts' = << Attempt(solver, FALSE) >>
        /\ IF solver.algorithm = "Newton"
             THEN /\ solver' = [solver EXCEPT !.algorithm = "ModifiedNewton"]
                  /\ UNCHANGED << pc, exit_message >>
             ELSE /\ exit_message' = "Analysis Failed In Vertical Loading"
                  /\ pc' = "returned"
                  /\ UNCHANGED solver
        /\ UNCHANGED << domain, converged, results, i >>
  /\ UNCHANGED << options, rung, incr, load_incr_factor, disp_incr_factor,
                  maximum, response_peak, limit_point, printed,
                  outside_path >>

\* Mutant: record() is called before the status of the increment is looked at.
VerticalStep_RecordsFailedStep ==
  /\ pc = "vertical"
  /\ i < num_steps_vertical
  /\ \/ \E d \in VerticalStates :
          /\ domain' = d
          /\ converged' = [converged EXCEPT !.vertical = @ + 1]
          /\ attempts' = << Attempt(solver, TRUE) >>
          /\ i' = i + 1
          /\ UNCHANGED << pc, exit_message >>
     \/ /\ attempts' = << Attempt(solver, FALSE) >>
        /\ exit_message' = "Analysis Failed In Vertical Loading"
        /\ pc' = "returned"
        /\ UNCHANGED << domain, converged, i >>
  /\ results' = RecordTime(results, domain')
  /\ UNCHANGED << options, rung, incr, load_incr_factor, disp_incr_factor, solver,
                  maximum, response_peak, limit_point, printed,
                  outside_path >>

\* Lines 217-224: one pass of `for i in range(num_steps_vertical)`.
VerticalStep ==
  /\ pc = "vertical"
  /\ i < num_steps_vertical
  /\ \/ \E d \in VerticalStates :
          /\ domain' = d
          /\ converged' = [converged EXCEPT !.vertical = @ + 1]
          /\ attempts' = << Attempt(solver, TRUE) >>
          /\ results' = RecordTime(results, d)
          /\ i' = i + 1
          /\ UNCHANGED << pc, exit_message >>
     \/ /\ attempts' = << Attempt(solver, FALSE) >>
        /\ exit_message' = "Analysis Failed In Vertical Loading"
        /\ pc' = "returned"
        /\ UNCHANGED << domain, converged, results, i >>
  /\ UNCHANGED << options, rung, incr, load_incr_factor, disp_incr_factor, solver,
                  maximum, response_peak, limit_point, printed,
                  outside_path >>

\* Mutant: the lateral phase starts without a record() of its own.
LateralSetup_NoInitialRecord ==
  /\ pc = "vertical"
  /\ i = num_steps_vertical
  /\ domain' = [domain EXCEPT !.time = 0]
  /\ solver' = [solver EXCEPT !.integrator =
                  DisplacementControl(2, 3, "disp_incr_factor", disp_incr_factor)]
  /\ maximum' = 0
  /\ attempts' = << >>
  /\ pc' = "lateral_loop"
  /\ UNCHANGED << options, rung, i, incr, load_incr_factor, disp_incr_factor,
                  results, exit_message, converged, response_peak, limit_point, printed,
                  outside_path >>

\* Lines 229-254: the load is held (the time is set back to 0), the lateral
\* integrator is set, and the lateral phase makes its initial record().
LateralSetup ==
  /\ pc = "vertical"
  /\ i = num_steps_vertical
  /\ domain' = [domain EXCEPT !.time = 0]
  /\ solver' = [solver EXCEPT !.integrator =
                  DisplacementControl(2, 3, "disp_incr_factor", disp_incr_factor)]
  /\ results' = RecordLateral(results, domain')
  /\ maximum' = 0
  /\ attempts' = << >>
  /\ pc' = "lateral_loop"
  /\ UNCHANGED << options, rung, i, incr, load_incr_factor, disp_incr_factor,
                  exit_message, converged, response_peak, limit_point, printed,
                  outside_path >>

\* What the attempt of rung k changes in the solver before it calls
\* ops.analyze(1) (lines 261, 266, 271, 279, 287, 294, 301-302).
LateralRungConfig(k) ==
  CASE k = 0      -> solver
    [] k \in 1..4 -> [solver EXCEPT !.integrator =
                        DisplacementControl(1, 3, "disp_incr_factor", disp_incr_factor + k)]
    [] k = 5      -> [solver EXCEPT !.algorithm = "ModifiedNewton"]
    [] k = 6      -> [solver EXCEPT !.algorithm = "KrylovNewton"]
    [] k = 7      -> [solver EXCEPT !.algorithm = "KrylovNewton", !.test = -4]

\* The attempt that follows a failed attempt of rung k, with the attempts
\* under ModifiedNewton and KrylovNewton inside `if try_smaller_steps`.
LateralNextRung_FlagGuardsAlgorithms(k) ==
  IF k = 0 THEN (IF try_smaller_steps THEN 1 ELSE 7) ELSE k + 1

\* The attempt that follows a failed attempt of rung k (lines 258-303).
LateralNextRung(k) ==
  IF k = 0 THEN (IF try_smaller_steps THEN 1 ELSE 5) ELSE k + 1

\* Lines 273-275 and 281-283: the baseline step after rung k converged.
LateralBaseline(k) ==
  IF k \in {3, 4} THEN disp_incr_factor + 1 ELSE disp_incr_factor

\* Line 275, 'Changed the step size to: {disp_incr_factor}', and line 283,
\* 'Changed the step size to: {disp_incr_factor/10}', both printed after the
\* baseline was divided.
LateralPrinted(k) ==
  CASE k = 3 -> Some(LateralBaseline(k))
    [] k = 4 -> Some(LateralBaseline(k) + 1)
    [] OTHER -> printed

\* Lines 307-311: the reset made after a converged attempt.
LateralReset(dif) ==
  [integrator |-> LoadControl("disp_incr_factor", dif),
   algorithm |-> "Newton", test |-> -3]

\* ops.analyze(1) of rung k converged to d: lines 307-311 and 316-342.
LateralConverged(k, d) ==
  /\ domain' = d
  /\ converged' = [converged EXCEPT !.loop = @ + 1]
  /\ response_peak' = Peak(response_peak, d.time)
  /\ attempts' = Append(IF k = 0 THEN << >> ELSE attempts,
                        Attempt(LateralRungConfig(k), TRUE))
  /\ disp_incr_factor' = LateralBaseline(k)
  /\ printed' = LateralPrinted(k)
  /\ solver' = LateralReset(disp_incr_factor')
  /\ results' = RecordLateral(results, d)
  /\ maximum' = UpdateMaximum(maximum, d.time)
  /\ exit_message' = LateralMonitors(results', maximum', d.time)
  /\ pc' = IF exit_message' = "" THEN "lateral_loop" ELSE "find_limit_point"
  /\ rung' = 0

\* Mutant: the exhausted ladder sets the message but does not leave the loop.
LateralNotConverged_NoBreak(k) ==
  /\ attempts' = Append(IF k = 0 THEN << >> ELSE attempts,
                        Attempt(LateralRungConfig(k), FALSE))
  /\ solver' = LateralRungConfig(k)
  /\ IF k = 7
       THEN /\ exit_message' = "Analysis Failed"
            /\ rung' = 0
            /\ UNCHANGED pc
       ELSE /\ rung' = LateralNextRung(k)
            /\ UNCHANGED << exit_message, pc >>
  /\ UNCHANGED << domain, converged, response_peak, disp_incr_factor, results,
                  maximum, printed >>

\* ops.analyze(1) of rung k failed: the next rung, or lines 312-314.
LateralNotConverged(k) ==
  /\ attempts' = Append(IF k = 0 THEN << >> ELSE attempts,
                        Attempt(LateralRungConfig(k), FALSE))
  /\ solver' = LateralRungConfig(k)
  /\ IF k = 7
       THEN /\ exit_message' = "Analysis Failed"
            /\ pc' = "find_limit_point"
            /\ rung' = 0
       ELSE /\ rung' = LateralNextRung(k)
            /\ UNCHANGED << exit_message, pc >>
  /\ UNCHANGED << domain, converged, response_peak, disp_incr_factor, results,
                  maximum, printed >>

LateralTry(k) ==
  /\ pc = "lateral_loop"
  /\ rung = k
  /\ \/ \E d \in SolverStates : LateralConverged(k, d)
     \/ LateralNotConverged(k)
  /\ UNCHANGED << options, i, load_incr_factor, limit_point, outside_path >>

\* Line 257: the nominal attempt of an increment.
LateralAnalyze ==
  /\ incr < MaxIncr
  /\ incr' = incr + 1
  /\ LateralTry(0)

\* Lines 259-283: the attempts at 1/10, 1/100, 1/1000, 1/10000 of the step.
LateralSmallerStep ==
  /\ try_smaller_steps
  /\ \E k \in 1..4 : LateralTry(k)
  /\ UNCHANGED incr

\* Lines 285-290.
LateralModifiedNewton == LateralTry(5) /\ UNCHANGED incr

\* Lines 292-297.
LateralKrylovNewton == LateralTry(6) /\ UNCHANGED incr

\* Lines 299-305.
LateralKrylovNewtonTol == LateralTry(7) /\ UNCHANGED incr


\* ------------------------------------------------------------------ limit point

\* `sub in msg` for the messages run_ops_analysis assigns.
Contains(msg, sub) ==
  \/ msg = sub
  \/ msg = "Analysis Failed In Vertical Loading" /\ sub = "Analysis Failed"
  \/ msg = "Eigenvalue Limit Reached" /\ sub = "Eigenvalue Limit"

SeqMax(list) == CHOOSE m \in { list[j] : j \in 1..Len(list) } :
                  \A j \in 1..Len(list) : list[j] <= m

\* find_limit_point_in_list(list, val): the last position at which the series
\* equals val, or passes val on its way to the next entry, with the fraction
\* num/den of the way to the next entry; None when the series never meets val.
FindLimitPointInList(list, val) ==
  LET at(j)   == list[j] = val
      past(j) == /\ j < Len(list)
                 /\ \/ list[j] < val /\ val < list[j + 1]
                    \/ list[j] > val /\ val > list[j + 1]
      hits    == { j \in 1..Len(list) : at(j) \/ past(j) }
  IN  IF hits = {} THEN None
      ELSE LET ind == CHOOSE j \in hits : \A h \in hits : h <= j
           IN  IF at(ind) THEN Some([ind |-> ind, num |-> 0, den |-> 1])
               ELSE Some([ind |-> ind, num |-> val - list[ind],
                          den |-> list[ind + 1] - list[ind]])

\* interpolate_list(list, ind, x): list[ind] + x * (list[ind+1] - list[ind]),
\* as the fraction << numerator, denominator >> with a positive denominator.
InterpolateList(list, at) ==
  IF at.num = 0 THEN << list[at.ind], 1 >>
  ELSE LET n == list[at.ind] * at.den + at.num * (list[at.ind + 1] - list[at.ind])
       IN  IF at.den > 0 THEN << n, at.den >> ELSE << -n, -at.den >>

\* Mutant: the eigenvalue series is searched for 0, not for eigenvalue_limit.
LimitPointSearch_EigenvalueZero ==
  IF Contains(exit_message, "Analysis Failed")
    THEN Some(<< results.maximum_abs_moment, SeqMax(results.maximum_abs_moment) >>)
  ELSE IF Contains(exit_message, "Eigenvalue Limit")
    THEN Some(<< results.lowest_eigenvalue, 0 >>)
  ELSE IF Contains(exit_message, "Extreme Compressive Concrete Fiber Strain Limit Reached")
    THEN Some(<< results.maximum_concrete_compression_strain, Val(concrete_strain_limit) >>)
  ELSE IF Contains(exit_message, "Extreme Steel Fiber Strain Limit Reached")
    THEN Some(<< results.maximum_steel_strain, Val(steel_strain_limit) >>)
  ELSE IF Contains(exit_message, "Load Drop Limit Reached")
    THEN Some(<< results.maximum_abs_moment, SeqMax(results.maximum_abs_moment) >>)
  ELSE None

\* Mutant: after a load drop the applied-load series is searched for its
\* maximum, not the moment series.
LimitPointSearch_LoadDropOnLoadSeries ==
  IF Contains(exit_message, "Analysis Failed")
    THEN Some(<< results.maximum_abs_moment, SeqMax(results.maximum_abs_moment) >>)
  ELSE IF Contains(exit_message, "Eigenvalue Limit")
    THEN Some(<< results.lowest_eigenvalue, Val(eigenvalue_limit) >>)
  ELSE IF Contains(exit_message, "Extreme Compressive Concrete Fiber Strain Limit Reached")
    THEN Some(<< results.maximum_concrete_compression_strain, Val(concrete_strain_limit) >>)
  ELSE IF Contains(exit_message, "Extreme Steel Fiber Strain Limit Reached")
    THEN Some(<< results.maximum_steel_strain, Val(steel_strain_limit) >>)
  ELSE IF Contains(exit_message, "Load Drop Limit Reached")
    THEN Some(<< results.applied_axial_load, SeqMax(results.applied_axial_load) >>)
  ELSE None

\* Lines 60-71: the series searched and the value searched for, by exit
\* message; None for a message none of the branches matches.
LimitPointSearch ==
  IF Contains(exit_message, "Analysis Failed")
    THEN Some(<< results.maximum_abs_moment, SeqMax(results.maximum_abs_moment) >>)
  ELSE IF Contains(exit_message, "Eigenvalue Limit")
    THEN Some(<< results.lowest_eigenvalue, Val(eigenvalue_limit) >>)
  ELSE IF Contains(exit_message, "Extreme Compressive Concrete Fiber Strain Limit Reached")
    THEN Some(<< results.maximum_concrete_compression_strain, Val(concrete_strain_limit) >>)
  ELSE IF Contains(exit_message, "Extreme Steel Fiber Strain Limit Reached")
    THEN Some(<< results.maximum_steel_strain, Val(steel_strain_limit) >>)
  ELSE IF Contains(exit_message, "Load Drop Limit Reached")
    THEN Some(<< results.maximum_abs_moment, SeqMax(results.maximum_abs_moment) >>)
  ELSE None

\* Lines 56-74 with 185-186 and 344-345: find_limit_point() and the return.
\* It ends in "unknown_limit_point" when no branch takes the message (line
\* 71), and in "raised" when the series searched never meets the value.
FindLimitPoint ==
  /\ pc = "find_limit_point"
  /\ LET search == LimitPointSearch
         at     == IF IsNone(search) THEN None
                   ELSE FindLimitPointInList(Val(search)[1], Val(search)[2])
     IN  IF IsNone(search)
           THEN /\ pc' = "unknown_limit_point"
                /\ UNCHANGED limit_point
         ELSE IF IsNone(at)
           THEN /\ pc' = "raised"
                /\ UNCHANGED limit_point
           ELSE /\ pc' = "returned"
                /\ limit_point' =
                     Some([ind |-> Val(at).ind,
                           applied_axial_load_at_limit_point |->
                             InterpolateList(results.applied_axial_load, Val(at)),
                           maximum_abs_moment_at_limit_point |->
                             InterpolateList(results.maximum_abs_moment, Val(at))])
  /\ UNCHANGED << options, rung, i, incr, load_incr_factor, disp_incr_factor, solver,
                  domain, results, exit_message, maximum, attempts, converged,
                  response_peak, printed, outside_path >>

\* ------------------------------------------------------------------ specification

Next ==
  \/ BuildOpsModel
  \/ PropSetup
  \/ PropAnalyze
  \/ PropSmallerStep
  \/ PropModifiedNewton
  \/ PropKrylovNewton
  \/ PropKrylovNewtonTol
  \/ NonpropSetup
  \/ VerticalStep
  \/ LateralSetup
  \/ LateralAnalyze
  \/ LateralSmallerStep
  \/ LateralModifiedNewton
  \/ LateralKrylovNewton
  \/ LateralKrylovNewtonTol
  \/ FindLimitPoint

Spec == Init /\ [][Next]_vars

\* ------------------------------------------------------------------ interaction

\* num_steps_vertical as run_ops_interaction leaves it, the default 20 of
\* the signature (line 34), cut down to the largest count explored.
SweepVertical == IF 20 <= MaxSweepVertical THEN 20 ELSE MaxSweepVertical

\* A call of run_ops_analysis from run_ops_interaction (lines 355-356 and
\* 367-368): the arguments given, the defaults of the signature for the rest
\* (lines 34-41), and fresh locals.  The OpenSees domain and analysis objects
\* are process-wide and are as the previous path left them.
CallRunOpsAnalysis(type, load) ==
  /\ analysis_type' = type
  /\ P' = load
  /\ try_smaller_steps' = TRUE
  /\ percent_load_drop_limit' = Some(5)
  /\ eigenvalue_limit' = Some(0)
  /\ concrete_strain_limit' = Some(-1)
  /\ steel_strain_limit' = Some(1)
  /\ num_steps_vertical' = SweepVertical
  /\ pc' = "start"
  /\ rung' = 0
  /\ i' = 0
  /\ incr' = 0
  /\ load_incr_factor' = 0
  /\ disp_incr_factor' = 0
  /\ results' = EmptyResults
  /\ exit_message' = ""
  /\ maximum' = 0
  /\ attempts' = << >>
  /\ converged' = [setup |-> 0, vertical |-> 0, loop |-> 0]
  /\ response_peak' = None
  /\ limit_point' = << >>
  /\ printed' = None
  /\ UNCHANGED << solver, domain >>

\* The call as logged in interaction.calls.
Call(type, load) == [analysis_type |-> type, P |-> load]

\* Lines 355-356: the axial-only analysis is started.
RunAxialOnly ==
  /\ interaction.pc = "start"
  /\ CallRunOpsAnalysis("proportional_limit_point", 0)
  /\ interaction' = [interaction EXCEPT
                       !.pc = "axial_only",
                       !.calls = Append(@, Call("proportional_limit_point", 0))]
  /\ UNCHANGED engine

\* Line 360, `P in [None, [None]]`: P is None, or its one entry is; a
\* number never is.
AxialOnlyFailed(Plist) ==
  \/ Plist = None
  \/ Len(Plist) = 1 /\ Plist[1] \notin Int

\* Mutant: an exception of the axial-only analysis is swallowed and the sweep
\* goes on with what was recorded.
AxialOnlyDone_AfterException ==
  /\ interaction.pc = "axial_only"
  /\ pc \in {"returned", "raised"}
  /\ interaction' = [interaction EXCEPT
                       !.pc = "loop", !.i = 1,
                       !.P = << SeqMax(results.applied_axial_load) >>,
                       !.M = << 0 >>]
  /\ UNCHANGED path
  /\ UNCHANGED engine

\* Lines 358-361: the axial-only analysis has returned; P and M get their
\* first entries, and the sweep raises if P holds no number.
AxialOnlyDone ==
  /\ interaction.pc = "axial_only"
  /\ pc = "returned"
  /\ LET Plist == << SeqMax(results.applied_axial_load) >>
     IN  interaction' = [interaction EXCEPT
                           !.pc = IF AxialOnlyFailed(Plist) THEN "raised" ELSE "loop",
                           !.i = 1,
                           !.P = Plist,
                           !.M = << 0 >>]
  /\ UNCHANGED path
  /\ UNCHANGED engine

\* Mutant: the axial loads of the sweep go up from 0, not down to 0.
InteractionAxialLoad_Ascending(P0, N, k) == (P0 * k) \div (N - 1)

\* Line 366: iP = P[0] * (num_points - 1 - i) / (num_points - 1).
InteractionAxialLoad(P0, N, k) == (P0 * (N - 1 - k)) \div (N - 1)

\* Lines 365-368: the i-th non-proportional analysis is started.
RunNonproportional ==
  /\ interaction.pc = "loop"
  /\ interaction.i < interaction.num_points
  /\ LET iP == InteractionAxialLoad(interaction.P[1], interaction.num_points,
                                    interaction.i)
     IN  /\ CallRunOpsAnalysis("nonproportional_limit_point", iP)
         /\ interaction' = [interaction EXCEPT
                              !.pc = "nonproportional",
                              !.calls = Append(@, Call("nonproportional_limit_point", iP))]
  /\ UNCHANGED engine

\* Lines 369-370: the i-th non-proportional analysis has returned.
NonproportionalDone ==
  /\ interaction.pc = "nonproportional"
  /\ pc = "returned"
  /\ interaction' = [interaction EXCEPT
                       !.pc = "loop",
                       !.i = @ + 1,
                       !.P = Append(@, P),
                       !.M = Append(@, SeqMax(results.maximum_abs_moment))]
  /\ UNCHANGED path
  /\ UNCHANGED engine

\* Line 372: the loop is over and the lists are returned.
InteractionReturn ==
  /\ interaction.pc = "loop"
  /\ interaction.i >= interaction.num_points
  /\ interaction' = [interaction EXCEPT !.pc = "returned"]
  /\ UNCHANGED path
  /\ UNCHANGED engine

\* An exception raised in run_ops_analysis is not caught (lines 355-370).
InteractionRaise ==
  /\ interaction.pc \in {"axial_only", "nonproportional"}
  /\ pc \in {"raised", "unknown_limit_point"}
  /\ interaction' = [interaction EXCEPT !.pc = "raised"]
  /\ UNCHANGED path
  /\ UNCHANGED engine

\* run_ops_interaction is called with num_points points; the OpenSees
\* domain is empty or holds what an earlier analysis of the process left.
InteractionInit ==
  /\ interaction \in { [Idle EXCEPT !.pc = "start", !.num_points = n] :
                         n \in 1..MaxPoints }
  /\ analysis_type = "proportional_limit_point"
  /\ try_smaller_steps = TRUE
  /\ percent_load_drop_limit = Some(5)
  /\ eigenvalue_limit = Some(0)
  /\ concrete_strain_limit = Some(-1)
  /\ steel_strain_limit = Some(1)
  /\ num_steps_vertical = SweepVertical
  /\ P = 0
  /\ pc = "idle"
  /\ rung = 0
  /\ i = 0
  /\ incr = 0
  /\ load_incr_factor = 0
  /\ disp_incr_factor = 0
  /\ solver = Unconfigured
  /\ domain \in { BuiltState, [BuiltState EXCEPT !.time = 12, !.eig = -1] }
  /\ results = EmptyResults
  /\ exit_message = ""
  /\ maximum = 0
  /\ attempts = << >>
  /\ converged = [setup |-> 0, vertical |-> 0, loop |-> 0]
  /\ response_peak = None
  /\ limit_point = << >>
  /\ printed = None
  /\ EngineUnused

InteractionNext ==
  \/ RunAxialOnly
  \/ AxialOnlyDone
  \/ RunNonproportional
  \/ NonproportionalDone
  \/ InteractionReturn
  \/ InteractionRaise
  \/ BuildOpsModel
  \/ PropSetup
  \/ PropAnalyze
  \/ PropSmallerStep
  \/ PropModifiedNewton
  \/ PropKrylovNewton
  \/ PropKrylovNewtonTol
  \/ NonpropSetup
  \/ VerticalStep
  \/ LateralSetup
  \/ LateralAnalyze
  \/ LateralSmallerStep
  \/ LateralModifiedNewton
  \/ LateralKrylovNewton
  \/ LateralKrylovNewtonTol
  \/ FindLimitPoint

InteractionSpec == InteractionInit /\ [][InteractionNext]_vars


\* ------------------------------------------------------------------ shared by the properties

Proportional == analysis_type = "proportional_limit_point"

\* The path is in, or has left through, its continuation loop.
InLoop ==
  /\ pc \in {"prop_loop", "lateral_loop", "find_limit_point", "returned", "raised"}
  /\ exit_message # "Analysis Failed In Vertical Loading"

\* The baseline step of the path's loop, and the parameter it divides.
Baseline == IF Proportional THEN load_incr_factor ELSE disp_incr_factor
StepParam == IF Proportional THEN "load_incr_factor" ELSE "disp_incr_factor"

\* The baseline step the attempts of the logged increment were made from:
\* the attempts at 1/1000 and 1/10000 lower the baseline when they converge.
BaselineOfIncrement ==
  IF /\ try_smaller_steps
     /\ Len(attempts) \in {4, 5}
     /\ Last(attempts).ok
  THEN Baseline - 1 ELSE Baseline

AllFailed == \A j \in 1..Len(attempts) : ~attempts[j].ok

\* ------------------------------------------------------------------ C1

\* The j-th attempt of an increment is the one the ladder prescribes.
LadderAttempt(j) ==
  LET a == attempts[j]
  IN  CASE j \in 2..5 -> /\ a.integrator.step = << StepParam, BaselineOfIncrement + (j - 1) >>
                         /\ a.algorithm = "Newton"
                         /\ a.test = -3
        [] j = 6      -> a.algorithm = "ModifiedNewton" /\ a.test = -3
        [] j = 7      -> a.algorithm = "KrylovNewton" /\ a.test = -3
        [] j = 8      -> a.algorithm = "KrylovNewton" /\ a.test # -3
        [] OTHER      -> j = 1

\* C1: with the retry ladder enabled, in the proportional and in the lateral
\* loop, the attempts of an increment after a failed first attempt are, in
\* this order, the step at 1/10, 1/100, 1/1000, 1/10000 of the baseline, the
\* first robust algorithm, the second robust algorithm, and the second robust
\* algorithm with a changed tolerance; every attempt but the last one made
\* has failed, a failed attempt is followed by the next one of the ladder, and
\* the exit message is 'Analysis Failed' exactly when all eight attempts of
\* one increment have failed.
C1_RetryLadderOrder ==
  (InLoop /\ try_smaller_steps /\ attempts # << >>) =>
    /\ Len(attempts) <= 8
    /\ \A j \in 1..Len(attempts) : LadderAttempt(j)
    /\ \A j \in 1..(Len(attempts) - 1) : ~attempts[j].ok
    /\ (AllFailed /\ Len(attempts) < 8) =>
         /\ pc \in {"prop_loop", "lateral_loop"}
         /\ rung = Len(attempts)
         /\ exit_message = ""
    /\ (exit_message = "Analysis Failed") <=> (AllFailed /\ Len(attempts) = 8)

\* An increment of the lateral loop converges only at the last attempt.
C1_Witness ==
  /\ ~Proportional
  /\ InLoop
  /\ try_smaller_steps
  /\ Len(attempts) = 8
  /\ Last(attempts).ok
  /\ exit_message = ""

\* ------------------------------------------------------------------ C2

\* The integrator the path's loop is set up with, at the current baseline.
OwnIntegrator ==
  IF Proportional
    THEN LoadControl("load_incr_factor", load_incr_factor)
    ELSE DisplacementControl(2, 3, "disp_incr_factor", disp_incr_factor)

\* C2: at the start of every increment of a continuation loop the solver has
\* the default algorithm (Newton), the default tolerance (1e-3) and the
\* path's own integrator (load control on the proportional path, displacement
\* control of node 2, degree of freedom 3, on the lateral path) at the
\* current baseline step.
C2_DefaultsAtIncrementStart ==
  (pc \in {"prop_loop", "lateral_loop"} /\ rung = 0) =>
    /\ solver.algorithm = "Newton"
    /\ solver.test = -3
    /\ solver.integrator = OwnIntegrator


\* ------------------------------------------------------------------ C3, C4, C5

\* The last logged attempt converged: the state is the one an increment of
\* the loop leaves, with its record made and its monitors evaluated.
JustIncremented == InLoop /\ attempts # << >> /\ Last(attempts).ok

\* The path response variable of the increment: the applied load recorded on
\* the proportional path, the load factor (time) on the lateral path.
CurrentResponse ==
  IF Proportional THEN Last(results.applied_axial_load) ELSE domain.time

\* The conditions of the four monitors as the specification words them, the
\* running maximum taken from the history variable and never below 0.
DropCondition ==
  /\ ~IsNone(percent_load_drop_limit)
  /\ CurrentResponse * 100 <
       (100 - Val(percent_load_drop_limit)) * Max(0, Val(response_peak))
EigenCondition ==
  /\ ~IsNone(eigenvalue_limit)
  /\ Last(results.lowest_eigenvalue) < Val(eigenvalue_limit)
ConcreteCondition ==
  /\ ~IsNone(concrete_strain_limit)
  /\ Last(results.maximum_concrete_compression_strain) < Val(concrete_strain_limit)
SteelCondition ==
  /\ ~IsNone(steel_strain_limit)
  /\ Last(results.maximum_steel_strain) > Val(steel_strain_limit)

FirstConditionInOrder ==
  IF DropCondition THEN "Load Drop Limit Reached"
  ELSE IF EigenCondition THEN "Eigenvalue Limit Reached"
  ELSE IF ConcreteCondition
    THEN "Extreme Compressive Concrete Fiber Strain Limit Reached"
  ELSE IF SteelCondition THEN "Extreme Steel Fiber Strain Limit Reached"
  ELSE ""

\* C3: after each successful increment, on both paths, the exit condition is
\* the first of LoadDropLimit, EigenvalueLimit, ConcreteStrainLimit,
\* SteelStrainLimit whose condition holds (none is set when none holds).
C3_FirstMonitorInOrderWins ==
  JustIncremented => exit_message = FirstConditionInOrder

\* C4: on both paths, an increment ends the path with EigenvalueLimit exactly
\* when the eigenvalue monitor is enabled, LoadDropLimit did not fire for the
\* increment, and the lowest eigenvalue just recorded is below the configured
\* eigenvalue threshold.
C4_EigenvalueLimitAtThreshold ==
  JustIncremented =>
    ( exit_message = "Eigenvalue Limit Reached"
      <=> /\ ~IsNone(eigenvalue_limit)
          /\ exit_message # "Load Drop Limit Reached"
          /\ Last(results.lowest_eigenvalue) < Val(eigenvalue_limit) )

\* C5 as claimed: LoadDropLimit fires after a successful increment exactly
\* when the monitor is enabled and the response variable is below
\* (1 - drop_fraction) times its maximum over the increments of the loop so
\* far, the current one included.
C5_DropAgainstMaximumOfIncrements ==
  JustIncremented =>
    ( exit_message = "Load Drop Limit Reached"
      <=> /\ ~IsNone(percent_load_drop_limit)
          /\ CurrentResponse * 100 <
               (100 - Val(percent_load_drop_limit)) * Val(response_peak) )

\* C5 as amended: LoadDropLimit fires after a successful increment exactly
\* when the monitor is enabled and the response variable is below
\* (1 - drop_fraction) times the running maximum, which starts at 0 and so is
\* the largest of 0 and the response variable over the increments of the loop
\* so far, the current one included; the running maximum never decreases.
C5_DropAgainstRunningMaximum ==
  /\ [](JustIncremented =>
          /\ exit_message = "Load Drop Limit Reached" <=> DropCondition
          /\ ~IsNone(percent_load_drop_limit) =>
               maximum = Max(0, Val(response_peak)))
  /\ [][maximum' >= maximum]_vars

\* The load factor of an increment is negative, the running maximum stays 0
\* and the monitor fires.
C5_Witness ==
  /\ JustIncremented
  /\ CurrentResponse < 0
  /\ maximum = 0
  /\ percent_load_drop_limit = Some(5)
  /\ exit_message = "Load Drop Limit Reached"


\* ------------------------------------------------------------------ C6

\* The exit condition an exit message stands for: the branch of
\* find_limit_point (lines 60-71) that takes the message, "Unknown" for none.
ExitCondition(msg) ==
  IF Contains(msg, "Analysis Failed") THEN "AnalysisFailed"
  ELSE IF Contains(msg, "Eigenvalue Limit") THEN "EigenvalueLimit"
  ELSE IF Contains(msg, "Extreme Compressive Concrete Fiber Strain Limit Reached")
    THEN "ConcreteStrainLimit"
  ELSE IF Contains(msg, "Extreme Steel Fiber Strain Limit Reached")
    THEN "SteelStrainLimit"
  ELSE IF Contains(msg, "Load Drop Limit Reached") THEN "LoadDropLimit"
  ELSE "Unknown"

ExitConditions ==
  { "AnalysisFailed", "EigenvalueLimit", "ConcreteStrainLimit",
    "SteelStrainLimit", "LoadDropLimit" }

\* C6: the exit condition of a path is one of the five known conditions, and
\* once it is assigned no step changes it, calls the solver (logs an attempt,
\* counts a convergence, moves the domain) or records a history entry.
C6_ExitConditionSetOnce ==
  /\ [](exit_message # "" => ExitCondition(exit_message) \in ExitConditions)
  /\ [][exit_message # "" =>
          /\ exit_message' = exit_message
          /\ attempts' = attempts
          /\ converged' = converged
          /\ domain' = domain
          /\ results' = results]_vars

\* A path that a monitor has ended and whose limit point has been searched.
C6_Witness ==
  /\ exit_message = "Extreme Steel Fiber Strain Limit Reached"
  /\ pc = "returned"
  /\ ~IsNone(limit_point)

\* ------------------------------------------------------------------ C7

HistoryLength == Len(results.applied_axial_load)

IsPrefix(s, t) ==
  /\ Len(s) <= Len(t)
  /\ \A j \in 1..Len(s) : s[j] = t[j]

SeriesNames ==
  { "applied_axial_load", "maximum_abs_moment", "lowest_eigenvalue",
    "maximum_concrete_compression_strain", "maximum_steel_strain" }

\* No step removes or alters an entry of any series.
AppendOnly == \A f \in SeriesNames : IsPrefix(results[f], results'[f])

\* C7 as claimed: at every moment of a path the history holds the initial
\* record and one entry per solver increment that has converged so far.
C7_OneEntryPerConvergedCall ==
  pc \notin {"start", "built"} =>
    HistoryLength = 1 + converged.setup + converged.vertical + converged.loop

\* C7 as amended: the history is append-only and grows by one entry per
\* converged increment of a loop, on top of the initial records: on the
\* proportional path 1 + the converged increments of the loop (the initial
\* record is made after the set-up's own solver step, converged or not), in
\* the vertical phase 1 + the converged vertical increments, and from the
\* start of the lateral phase 2 + the converged vertical and lateral
\* increments (the lateral phase makes an initial record of its own).
C7_OneEntryPerConvergedIncrement ==
  /\ [](pc \notin {"start", "built"} =>
          /\ \A f \in SeriesNames : Len(results[f]) = HistoryLength
          /\ HistoryLength =
               IF Proportional THEN 1 + converged.loop
               ELSE IF pc = "vertical" \/ ~InLoop THEN 1 + converged.vertical
               ELSE 2 + converged.vertical + converged.loop)
  /\ [][AppendOnly]_vars

\* The lateral phase after a converged increment: two initial records, the
\* vertical increments and one lateral increment.
C7_Witness ==
  /\ ~Proportional
  /\ JustIncremented
  /\ converged.loop = 1
  /\ HistoryLength = num_steps_vertical + 3

\* ------------------------------------------------------------------ C8

\* C8: the vertical phase runs num_steps_vertical increments under one and
\* the same configuration (load control at P/num_steps_vertical, Newton,
\* 1e-3), each attempted once; no monitor ends the path in this phase,
\* whatever is recorded; the first increment that does not converge ends the
\* path at once with an analysis-failed condition, with nothing retried, no
\* lateral phase entered and no limit point searched.
C8_VerticalPhaseNoRetry ==
  /\ pc = "vertical" =>
       /\ exit_message = ""
       /\ i <= num_steps_vertical
       /\ converged.vertical = i
       /\ solver = VerticalDefaults
       /\ attempts # << >> => attempts = << Attempt(VerticalDefaults, TRUE) >>
  /\ exit_message = "Analysis Failed In Vertical Loading" =>
       /\ ExitCondition(exit_message) = "AnalysisFailed"
       /\ pc = "returned"
       /\ ~ENABLED Next
       /\ attempts = << Attempt(VerticalDefaults, FALSE) >>
       /\ i < num_steps_vertical
       /\ converged = [setup |-> 0, vertical |-> i, loop |-> 0]
       /\ \A j \in 1..HistoryLength : results.maximum_abs_moment[j] = 0
       /\ IsNone(limit_point)
  /\ (~Proportional /\ InLoop) =>
       /\ i = num_steps_vertical
       /\ converged.vertical = num_steps_vertical

\* The vertical phase fails after it recorded a state past the eigenvalue and
\* concrete-strain thresholds with those monitors enabled.
C8_Witness ==
  /\ exit_message = "Analysis Failed In Vertical Loading"
  /\ i >= 1
  /\ EigenCondition
  /\ ConcreteCondition

\* ------------------------------------------------------------------ C9

\* C9 (scenario D): a non-proportional path whose vertical phase fails after
\* 3 converged increments returns at once with an analysis-failed exit
\* condition and a history of 4 entries, with no limit point interpolated.
C9_VerticalFailureScenario ==
  ( /\ ~Proportional
    /\ exit_message # ""
    /\ converged.vertical = 3
    /\ num_steps_vertical > 3 ) =>
      /\ ExitCondition(exit_message) = "AnalysisFailed"
      /\ pc = "returned"
      /\ HistoryLength = 4
      /\ results.applied_axial_load[1] = BuiltState.time
      /\ IsNone(limit_point)

C9_Witness ==
  /\ ~Proportional
  /\ exit_message = "Analysis Failed In Vertical Loading"
  /\ converged.vertical = 3
  /\ HistoryLength = 4


\* ------------------------------------------------------------------ C10

\* The proportional path has returned, its eigenvalue monitor is enabled,
\* the lowest eigenvalue is below the threshold at the last recorded step k
\* and at no step before it, and LoadDropLimit does not hold at step k.
EigenvalueFirstBelowAtLastStep ==
  /\ Proportional
  /\ pc = "returned"
  /\ ~IsNone(eigenvalue_limit)
  /\ HistoryLength >= 2
  /\ \A j \in 1..(HistoryLength - 1) :
       results.lowest_eigenvalue[j] >= Val(eigenvalue_limit)
  /\ Last(results.lowest_eigenvalue) < Val(eigenvalue_limit)
  /\ ~DropCondition

\* The fraction q = << n, d >>, d > 0, lies strictly between a and b.
StrictlyBetween(q, a, b) ==
  \/ a * q[2] < q[1] /\ q[1] < b * q[2]
  \/ b * q[2] < q[1] /\ q[1] < a * q[2]

\* The fraction q = << n, d >> is a + (xn/xd) * (b - a).
InterpolatedAt(q, a, b, xn, xd) ==
  q[1] * xd = q[2] * (a * xd + xn * (b - a))

\* C10 as claimed: the path ends at step k with EigenvalueLimit, and both
\* coordinates of the limit point lie strictly between the values recorded
\* at steps k-1 and k.
C10_LimitPointStrictlyBetween ==
  EigenvalueFirstBelowAtLastStep =>
    LET k  == HistoryLength
        lp == Val(limit_point)
    IN  /\ exit_message = "Eigenvalue Limit Reached"
        /\ StrictlyBetween(lp.applied_axial_load_at_limit_point,
                           results.applied_axial_load[k - 1],
                           results.applied_axial_load[k])
        /\ StrictlyBetween(lp.maximum_abs_moment_at_limit_point,
                           results.maximum_abs_moment[k - 1],
                           results.maximum_abs_moment[k])

\* C10 as amended: the path ends at step k with EigenvalueLimit; the limit
\* point is located in the interval from step k-1 to step k at the fraction
\* x, 0 <= x < 1, at which the interpolated eigenvalue equals the threshold
\* (x = 0 when the eigenvalue recorded at step k-1 equals the threshold); its
\* applied load is the load of step k-1 plus x times the load step from k-1
\* to k, and its moment is 0, the moment recorded at every step of the
\* proportional path.
C10_LimitPointInLastInterval ==
  EigenvalueFirstBelowAtLastStep =>
    LET k  == HistoryLength
        lp == Val(limit_point)
        xn == results.lowest_eigenvalue[k - 1] - Val(eigenvalue_limit)
        xd == results.lowest_eigenvalue[k - 1] - results.lowest_eigenvalue[k]
    IN  /\ exit_message = "Eigenvalue Limit Reached"
        /\ ~IsNone(limit_point)
        /\ lp.ind = k - 1
        /\ 0 <= xn /\ xn < xd
        /\ InterpolatedAt(lp.applied_axial_load_at_limit_point,
                          results.applied_axial_load[k - 1],
                          results.applied_axial_load[k], xn, xd)
        /\ lp.maximum_abs_moment_at_limit_point[1] = 0

\* No solver call has failed (the set-up's and the increment's converged at
\* the first attempt), the eigenvalue goes from above the threshold to below
\* it over the increment while the load grows, and the limit point's load is
\* strictly inside the load step.
C10_Witness ==
  /\ EigenvalueFirstBelowAtLastStep
  /\ converged.setup = 1
  /\ HistoryLength = 2
  /\ attempts = << Attempt(PropDefaults, TRUE) >>
  /\ results.lowest_eigenvalue[1] > Val(eigenvalue_limit)
  /\ results.applied_axial_load[1] < results.applied_axial_load[2]
  /\ StrictlyBetween(Val(limit_point).applied_axial_load_at_limit_point,
                     results.applied_axial_load[1], results.applied_axial_load[2])

\* ------------------------------------------------------------------ C11

\* Response histories and exit messages find_limit_point() is applied to on
\* its own: three recorded steps, the five messages run_ops_analysis
\* assigns before it calls find_limit_point, and three messages no branch
\* or another branch takes.
LocatorLoads    == { << 0, 1, 2 >>, << 0, 2, 1 >> }
LocatorMoments  == { << 0, 0, 0 >>, << 0, 1, 2 >>, << 0, 2, 1 >>, << 1, 2, 2 >> }
LocatorEigens   == { << 2, 2, -1 >>, << 2, 0, -1 >>, << 2, 2, 2 >>, << 2, -1, 2 >> }
LocatorConcrete == { << 0, 0, -2 >>, << 0, -2, -2 >> }
LocatorSteel    == { << 0, 0, 2 >>, << 0, 2, 2 >> }
LocatorMessages ==
  { "Analysis Failed", "Load Drop Limit Reached", "Eigenvalue Limit Reached",
    "Extreme Compressive Concrete Fiber Strain Limit Reached",
    "Extreme Steel Fiber Strain Limit Reached",
    "Analysis Failed In Vertical Loading", "", "Strain Limit Reached" }

LocatorInit ==
  /\ analysis_type \in {"proportional_limit_point", "nonproportional_limit_point"}
  /\ try_smaller_steps = TRUE
  /\ percent_load_drop_limit = Some(5)
  /\ eigenvalue_limit \in { Some(0), Some(1) }
  /\ concrete_strain_limit = Some(-1)
  /\ steel_strain_limit = Some(1)
  /\ num_steps_vertical = 1
  /\ P \in AxialLoads
  /\ pc = "find_limit_point"
  /\ rung = 0
  /\ i = 0
  /\ incr = 0
  /\ load_incr_factor = 0
  /\ disp_incr_factor = 0
  /\ solver = Unconfigured
  /\ domain = BuiltState
  /\ results \in [applied_axial_load : LocatorLoads,
                  maximum_abs_moment : LocatorMoments,
                  lowest_eigenvalue : LocatorEigens,
                  maximum_concrete_compression_strain : LocatorConcrete,
                  maximum_steel_strain : LocatorSteel]
  /\ exit_message \in LocatorMessages
  /\ maximum = 0
  /\ attempts = << >>
  /\ converged = [setup |-> 0, vertical |-> 0, loop |-> 0]
  /\ response_peak = None
  /\ limit_point = << >>
  /\ printed = None
  /\ interaction = Idle
  /\ EngineUnused

LocatorSpec == LocatorInit /\ [][FindLimitPoint]_vars

\* The exit condition a message of the controller stands for.
ExitTag(msg) ==
  CASE msg = "Analysis Failed" -> "AnalysisFailed"
    [] msg = "Analysis Failed In Vertical Loading" -> "AnalysisFailed"
    [] msg = "Load Drop Limit Reached" -> "LoadDropLimit"
    [] msg = "Eigenvalue Limit Reached" -> "EigenvalueLimit"
    [] msg = "Extreme Compressive Concrete Fiber Strain Limit Reached"
         -> "ConcreteStrainLimit"
    [] msg = "Extreme Steel Fiber Strain Limit Reached" -> "SteelStrainLimit"
    [] OTHER -> "Unrecognized"

\* The series and the target the claim gives for an exit condition.
SeriesOf(tag) ==
  CASE tag \in {"AnalysisFailed", "LoadDropLimit"} -> results.maximum_abs_moment
    [] tag = "EigenvalueLimit" -> results.lowest_eigenvalue
    [] tag = "ConcreteStrainLimit" -> results.maximum_concrete_compression_strain
    [] tag = "SteelStrainLimit" -> results.maximum_steel_strain
TargetOf(tag) ==
  CASE tag \in {"AnalysisFailed", "LoadDropLimit"} -> SeqMax(results.maximum_abs_moment)
    [] tag = "EigenvalueLimit" -> Val(eigenvalue_limit)
    [] tag = "ConcreteStrainLimit" -> Val(concrete_strain_limit)
    [] tag = "SteelStrainLimit" -> Val(steel_strain_limit)

\* C11: once find_limit_point() has run, an exit condition that is none of
\* the five has failed with the unrecognized-condition error and left no limit
\* point; otherwise the series of the exit condition was searched for its
\* target (the moment series and its maximum for AnalysisFailed and
\* LoadDropLimit, the eigenvalue, concrete-strain and steel-strain series and
\* their thresholds for the three limits), and the one (index, fraction)
\* found gives both the applied load and the moment of the limit point.
C11_LocatorSelectsByExitCondition ==
  pc # "find_limit_point" =>
    LET tag == ExitTag(exit_message)
    IN  IF tag = "Unrecognized"
          THEN pc = "unknown_limit_point" /\ IsNone(limit_point)
          ELSE LET at == FindLimitPointInList(SeriesOf(tag), TargetOf(tag))
               IN  /\ pc # "unknown_limit_point"
                   /\ pc = "returned" <=> ~IsNone(at)
                   /\ pc = "returned" =>
                        /\ ~IsNone(limit_point)
                        /\ Val(limit_point).ind = Val(at).ind
                        /\ Val(limit_point).applied_axial_load_at_limit_point =
                             InterpolateList(results.applied_axial_load, Val(at))
                        /\ Val(limit_point).maximum_abs_moment_at_limit_point =
                             InterpolateList(results.maximum_abs_moment, Val(at))

\* After a load drop the moment peaked at the second of three steps, where
\* the applied load did not: the limit point is the second step of both
\* series.
C11_Witness ==
  /\ pc = "returned"
  /\ exit_message = "Load Drop Limit Reached"
  /\ results.maximum_abs_moment = << 0, 2, 1 >>
  /\ results.applied_axial_load = << 0, 1, 2 >>
  /\ Val(limit_point).ind = 2
  /\ Val(limit_point).applied_axial_load_at_limit_point = << 1, 1 >>
  /\ Val(limit_point).maximum_abs_moment_at_limit_point = << 2, 1 >>

\* ------------------------------------------------------------------ C12

\* What each monitor looks at after an increment, its own threshold and the
\* history only.  The eigenvalue monitor of the lateral loop compares with 0
\* whatever its threshold is (see C4); a null threshold disables it all the
\* same.
DropMonitorFires == DropCondition
EigenMonitorFires ==
  /\ ~IsNone(eigenvalue_limit)
  /\ Last(results.lowest_eigenvalue) <
       (IF Proportional THEN Val(eigenvalue_limit) ELSE 0)
ConcreteMonitorFires == ConcreteCondition
SteelMonitorFires == SteelCondition

FirstMonitorFiring ==
  IF DropMonitorFires THEN "Load Drop Limit Reached"
  ELSE IF EigenMonitorFires THEN "Eigenvalue Limit Reached"
  ELSE IF ConcreteMonitorFires
    THEN "Extreme Compressive Concrete Fiber Strain Limit Reached"
  ELSE IF SteelMonitorFires THEN "Extreme Steel Fiber Strain Limit Reached"
  ELSE ""

\* The increment of the loop called the solver once for every attempt of the
\* ladder and none converged.
LadderExhausted ==
  /\ InLoop
  /\ Len(attempts) = (IF try_smaller_steps THEN 8 ELSE 4)
  /\ AllFailed

\* C12: a path whose threshold for a monitor is null never ends with that
\* monitor's exit condition; after each converged increment the exit
\* condition is that of the first monitor, among those with a threshold,
\* whose own condition holds, whichever of the other thresholds are null;
\* and the path ends with AnalysisFailed in its loop exactly when every
\* attempt of an increment failed.
C12_NullThresholdDisablesOneMonitor ==
  /\ IsNone(percent_load_drop_limit) => exit_message # "Load Drop Limit Reached"
  /\ IsNone(eigenvalue_limit) => exit_message # "Eigenvalue Limit Reached"
  /\ IsNone(concrete_strain_limit) =>
       exit_message # "Extreme Compressive Concrete Fiber Strain Limit Reached"
  /\ IsNone(steel_strain_limit) =>
       exit_message # "Extreme Steel Fiber Strain Limit Reached"
  /\ JustIncremented => exit_message = FirstMonitorFiring
  /\ exit_message = "Analysis Failed" <=> LadderExhausted

\* The eigenvalue monitor alone is disabled; an increment records an
\* eigenvalue below 0 and a concrete strain past its threshold, and the path
\* ends with the concrete-strain condition.
C12_Witness ==
  /\ JustIncremented
  /\ IsNone(eigenvalue_limit)
  /\ ~IsNone(percent_load_drop_limit)
  /\ ~IsNone(concrete_strain_limit)
  /\ ~IsNone(steel_strain_limit)
  /\ Last(results.lowest_eigenvalue) < 0
  /\ exit_message = "Extreme Compressive Concrete Fiber Strain Limit Reached"

\* ------------------------------------------------------------------ C13

\* The paths run_ops_interaction has called, in order.
Calls == interaction.calls
NumPoints == interaction.num_points

\* m is the largest entry of the series.
IsMaximumOf(m, series) ==
  /\ \E j \in 1..Len(series) : series[j] = m
  /\ \A j \in 1..Len(series) : series[j] <= m

NonIncreasing(list) == \A j \in 1..(Len(list) - 1) : list[j] >= list[j + 1]

\* C13: the sweep for N points calls one axial-only proportional path first
\* and then N-1 non-proportional paths in order, the i-th under the axial
\* load P[0]*(N-1-i)/(N-1); the lists it returns have N entries each, M[0] is
\* 0, P[i] is that axial load (so the last P is 0 when there is a
\* non-proportional path at all, and P is non-increasing for P[0] >= 0);
\* P[0] is set from the largest applied load recorded on the axial-only path
\* and M[i] from the largest moment recorded on the i-th non-proportional
\* path; the returned lists are not changed afterwards.
C13_SweepOneAxialThenLinearFractions ==
  /\ [](interaction.pc = "returned" =>
          /\ Len(interaction.P) = NumPoints
          /\ Len(interaction.M) = NumPoints
          /\ Len(Calls) = NumPoints
          /\ Calls[1] = Call("proportional_limit_point", 0)
          /\ interaction.M[1] = 0
          /\ \A k \in 1..(NumPoints - 1) :
               /\ interaction.P[k + 1] * (NumPoints - 1) =
                    interaction.P[1] * (NumPoints - 1 - k)
               /\ Calls[k + 1] =
                    Call("nonproportional_limit_point", interaction.P[k + 1])
          /\ NumPoints >= 2 => Last(interaction.P) = 0
          /\ interaction.P[1] >= 0 => NonIncreasing(interaction.P))
  /\ [][ /\ (interaction.pc = "axial_only" /\ interaction'.pc = "loop") =>
              /\ Len(interaction'.P) = 1
              /\ IsMaximumOf(interaction'.P[1], results.applied_axial_load)
         /\ (interaction.pc = "nonproportional" /\ interaction'.pc = "loop") =>
              /\ Len(interaction'.M) = Len(interaction.M) + 1
              /\ IsMaximumOf(Last(interaction'.M), results.maximum_abs_moment)
              /\ analysis_type = "nonproportional_limit_point"
              /\ interaction'.i = Len(interaction.M) + 1
         /\ interaction.pc = "returned" => interaction' = interaction ]_vars

\* A sweep of three points has returned: the axial-only path peaked at 12,
\* the two non-proportional paths ran under 6 and 0, and the first of them
\* recorded a moment.
C13_Witness ==
  /\ interaction.pc = "returned"
  /\ NumPoints = 3
  /\ interaction.P = << 12, 6, 0 >>
  /\ interaction.M[2] > 0
  /\ Len(Calls) = 3

\* ------------------------------------------------------------------ C14

\* No solver call has been made on the model since it was built.
FreshModel ==
  /\ domain = BuiltState
  /\ solver = Unconfigured
  /\ attempts = << >>
  /\ converged = [setup |-> 0, vertical |-> 0, loop |-> 0]

\* No path is running: none was called yet, or the last one has ended.
NoPathRunning == pc \in {"idle", "returned", "raised", "unknown_limit_point"}

\* C14: the sweep calls a path only when no path is running; the first
\* thing a path does is to wipe and rebuild the model, so that its first
\* solver call starts from a freshly built model, whatever the previous path
\* left; and between the end of a path and the rebuild of the next the solver
\* is not called and the model is not advanced.
C14_SequentialPathsRebuildModel ==
  /\ [](pc = "built" => FreshModel)
  /\ [][ /\ (pc' = "start" /\ pc # "start") => NoPathRunning
         /\ pc = "start" => pc' = "built"
         /\ (NoPathRunning \/ pc = "start") =>
              /\ converged' = converged \/ converged' = [setup |-> 0, vertical |-> 0, loop |-> 0]
              /\ attempts' = attempts \/ attempts' = << >>
              /\ domain' = domain \/ (pc = "start" /\ domain' = BuiltState) ]_vars

\* The second path of a sweep is about to make its first solver call: the
\* axial-only path before it advanced the model up to a load factor of 12,
\* and the model is freshly built again.
C14_Witness ==
  /\ Len(Calls) = 2
  /\ interaction.P = << 12 >>
  /\ pc = "built"
  /\ FreshModel

\* ------------------------------------------------------------------ C15

BaselineBefore == attempts[1].integrator.step[2]

\* C20: when the attempt of an increment that converges is the third, fourth
\* or fifth of the ladder (1/100, 1/1000, 1/10000 of the step), the baseline
\* step from then on is the former baseline divided by 10 and that size is
\* the one logged; when the first attempt or the second (1/10 of the step)
\* converges, the baseline is the former one; on both loops.
C20_BaselineDividedAfterSmallStep ==
  (JustIncremented /\ (try_smaller_steps \/ Len(attempts) = 1)) =>
    /\ Len(attempts) \in 3..5 =>
         /\ Baseline = BaselineBefore + 1
         /\ printed = Some(Baseline)
    /\ Len(attempts) \in 1..2 => Baseline = BaselineBefore


\* ---------------------------------------------------------------------------
\* ACI_strain_compatibility.py: the material laws
\* ---------------------------------------------------------------------------

\* Stresses, strains and strengths are floats in the source. They are rational
\* numbers here, << numerator, denominator >> with a positive denominator
\* and in lowest terms, and the arithmetic on them is exact.
RECURSIVE GCD(_, _)
GCD(a, b) == IF b = 0 THEN a ELSE GCD(b, a % b)

Rat(n, d) ==
  LET g == GCD(IF n < 0 THEN -n ELSE n, IF d < 0 THEN -d ELSE d)
  IN IF d < 0 THEN << (-n) \div g, (-d) \div g >> ELSE << n \div g, d \div g >>

FromInt(n) == << n, 1 >>

RNeg(p) == << -p[1], p[2] >>

RAdd(p, q) == Rat(p[1] * q[2] + q[1] * p[2], p[2] * q[2])

RSub(p, q) == RAdd(p, RNeg(q))

RMul(p, q) == Rat(p[1] * q[1], p[2] * q[2])

RDiv(p, q) == Rat(p[1] * q[2], p[2] * q[1])

REq(p, q) == p[1] * q[2] = q[1] * p[2]

RLe(p, q) == p[1] * q[2] <= q[1] * p[2]

RLt(p, q) == p[1] * q[2] < q[1] * p[2]

RAbs(p) == IF p[1] < 0 THEN RNeg(p) ELSE p

\* What a call did: it returned a value or it raised an exception.
Returned(v) == [raised |-> "", value |-> << v >>]

Raised(e) == [raised |-> e, value |-> << >>]

HasReturned(outcome) == outcome.raised = ""

ValueOf(outcome) == outcome.value[1]

\* AciStrainCompatibilitySteelMaterial(Fy, Es)
AciStrainCompatibilitySteelMaterial(Fy, Es) ==
  [class |-> "AciStrainCompatibilitySteelMaterial", Fy |-> Fy, Es |-> Es]

\* The yield strain.
ey(self) == RDiv(self.Fy, self.Es)

\* get_stress of the steel with the yield strain compared against the yield
\* stress instead of the yield strain.
SteelGetStress_YieldAtFy(self, strain) ==
  [index \in 1..Len(strain) |->
     LET value == strain[index] IN
       IF RLe(value, RNeg(self.Fy)) THEN RNeg(self.Fy)
       ELSE IF RLe(value, self.Fy) THEN RMul(value, self.Es)
       ELSE self.Fy]

\* get_stress of the steel: elastic, perfectly plastic, one stress per strain.
SteelGetStress(self, strain) ==
  [index \in 1..Len(strain) |->
     LET value == strain[index] IN
       IF RLe(value, RNeg(ey(self))) THEN RNeg(self.Fy)
       ELSE IF RLe(value, ey(self)) THEN RMul(value, self.Es)
       ELSE self.Fy]

\* AciStrainCompatibilityConcreteMaterial(fc, units)
AciStrainCompatibilityConcreteMaterial(fc, units) ==
  [class |-> "AciStrainCompatibilityConcreteMaterial", fc |-> fc, units |-> units]

extreme_concrete_compression_strain == << -3, 1000 >>

\* The unit-system strings the model gives to a concrete.
UnitStrings == {"US", "us", "Us", "SI", "si", "sI", "metric", "Psi", ""}

\* str.lower() on those strings and on the words given to add_material.
Lower(s) ==
  CASE s \in {"US", "us", "Us"} -> "us"
    [] s \in {"SI", "si", "sI"} -> "si"
    [] s = "Psi" -> "psi"
    [] s = "Concrete" -> "concrete"
    [] OTHER -> s

\* beta1 with the unit system compared as it was given.
Beta1_CaseSensitive(self) ==
  IF self.units = "us"
  THEN IF RLe(self.fc, FromInt(4)) THEN Returned(<< 17, 20 >>)
       ELSE IF RLe(self.fc, FromInt(8))
            THEN Returned(RSub(<< 17, 20 >>,
                               RMul(<< 1, 20 >>, RSub(self.fc, FromInt(4)))))
            ELSE Returned(<< 13, 20 >>)
  ELSE IF self.units = "si"
  THEN IF RLe(self.fc, FromInt(28)) THEN Returned(<< 17, 20 >>)
       ELSE IF RLe(self.fc, FromInt(55))
            THEN Returned(RSub(<< 17, 20 >>,
                               RDiv(RMul(<< 1, 20 >>, RSub(self.fc, FromInt(28))),
                                    FromInt(7))))
            ELSE Returned(<< 13, 20 >>)
  ELSE Raised("ValueError")

\* The property beta1 (ACI 318-19 Table 22.2.2.4.3): fc is in ksi for "us"
\* and in MPa for "si".
Beta1(self) ==
  IF Lower(self.units) = "us"
  THEN IF RLe(self.fc, FromInt(4)) THEN Returned(<< 17, 20 >>)
       ELSE IF RLe(self.fc, FromInt(8))
            THEN Returned(RSub(<< 17, 20 >>,
                               RMul(<< 1, 20 >>, RSub(self.fc, FromInt(4)))))
            ELSE Returned(<< 13, 20 >>)
  ELSE IF Lower(self.units) = "si"
  THEN IF RLe(self.fc, FromInt(28)) THEN Returned(<< 17, 20 >>)
       ELSE IF RLe(self.fc, FromInt(55))
            THEN Returned(RSub(<< 17, 20 >>,
                               RDiv(RMul(<< 1, 20 >>, RSub(self.fc, FromInt(28))),
                                    FromInt(7))))
            ELSE Returned(<< 13, 20 >>)
  ELSE Raised("ValueError")

\* The strain at which the concrete stress block starts.
Ecr(self) ==
  RMul(extreme_concrete_compression_strain,
       RSub(FromInt(1), ValueOf(Beta1(self))))

\* get_stress of the concrete: the equivalent stress block, one stress per
\* strain. It raises what beta1 raises.
ConcreteGetStress(self, strain) ==
  IF ~HasReturned(Beta1(self))
  THEN Beta1(self)
  ELSE Returned([index \in 1..Len(strain) |->
                   IF RLe(strain[index], Ecr(self))
                   THEN RMul(<< -17, 20 >>, self.fc)
                   ELSE FromInt(0)])

\* No path analysis is asked for: the model of cross_section_2d.py stands
\* still, as built.
PathUnused ==
  /\ analysis_type = "proportional_limit_point"
  /\ try_smaller_steps = TRUE
  /\ percent_load_drop_limit = None
  /\ eigenvalue_limit = None
  /\ concrete_strain_limit = None
  /\ steel_strain_limit = None
  /\ num_steps_vertical = 1
  /\ P = 0
  /\ pc = "start"
  /\ rung = 0
  /\ i = 0
  /\ incr = 0
  /\ load_incr_factor = 0
  /\ disp_incr_factor = 0
  /\ solver = Unconfigured
  /\ domain = BuiltState
  /\ results = EmptyResults
  /\ exit_message = ""
  /\ maximum = 0
  /\ attempts = << >>
  /\ converged = [setup |-> 0, vertical |-> 0, loop |-> 0]
  /\ response_peak = None
  /\ limit_point = << >>
  /\ printed = None

\* The calls on material objects that the model makes.
SteelStrengths == {FromInt(n) : n \in 1..3}

SteelStrains == {Rat(n, 6) : n \in -20..20}

ConcreteStrengths == {Rat(n, 2) : n \in (0..20) \cup (54..58) \cup (108..114)}

ConcreteStrains == {<< -3, 1000 >>, << -9, 20000 >>, << -1, 1000 >>,
                    << 0, 1 >>, << 5, 1000 >>}

MaterialCalls ==
  {[fn |-> "steel.get_stress",
    objects |-> << AciStrainCompatibilitySteelMaterial(Fy, Es) >>,
    strain |-> << e1, e2 >>, result |-> None] :
      Fy \in SteelStrengths, Es \in SteelStrengths,
      e1 \in SteelStrains, e2 \in SteelStrains}
  \cup
  {[fn |-> "concrete.beta1",
    objects |-> << AciStrainCompatibilityConcreteMaterial(fc1, u),
                   AciStrainCompatibilityConcreteMaterial(fc2, u) >>,
    strain |-> << >>, result |-> None] :
      fc1 \in ConcreteStrengths, fc2 \in ConcreteStrengths, u \in UnitStrings}
  \cup
  {[fn |-> "concrete.get_stress",
    objects |-> << AciStrainCompatibilityConcreteMaterial(fc, u) >>,
    strain |-> << e1, e2 >>, result |-> None] :
      fc \in {FromInt(4), FromInt(6), FromInt(40)}, u \in {"US", "si", "metric"},
      e1 \in ConcreteStrains, e2 \in ConcreteStrains}

\* steel.get_stress(strain)
CallSteelGetStress ==
  /\ material_call # << >>
  /\ material_call.fn = "steel.get_stress"
  /\ IsNone(material_call.result)
  /\ material_call' =
       [material_call EXCEPT
          !.result = Some(<< Returned(SteelGetStress(material_call.objects[1],
                                                     material_call.strain)) >>)]
  /\ UNCHANGED << path, interaction, materials, instances, point >>

\* concrete.beta1, read on each of the objects
CallBeta1 ==
  /\ material_call # << >>
  /\ material_call.fn = "concrete.beta1"
  /\ IsNone(material_call.result)
  /\ material_call' =
       [material_call EXCEPT
          !.result = Some([k \in 1..Len(material_call.objects) |->
                             Beta1(material_call.objects[k])])]
  /\ UNCHANGED << path, interaction, materials, instances, point >>

\* concrete.get_stress(strain)
CallConcreteGetStress ==
  /\ material_call # << >>
  /\ material_call.fn = "concrete.get_stress"
  /\ IsNone(material_call.result)
  /\ material_call' =
       [material_call EXCEPT
          !.result = Some(<< ConcreteGetStress(material_call.objects[1],
                                               material_call.strain) >>)]
  /\ UNCHANGED << path, interaction, materials, instances, point >>

\* The material objects on their own: one is built, one call is made on it.
MaterialInit ==
  /\ PathUnused
  /\ interaction = Idle
  /\ materials = << >>
  /\ instances = << >>
  /\ point = << >>
  /\ material_call \in MaterialCalls

MaterialNext ==
  \/ CallSteelGetStress
  \/ CallBeta1
  \/ CallConcreteGetStress

MaterialSpec == MaterialInit /\ [][MaterialNext]_vars

\* ---------------------------------------------------------------------------
\* C18
\* ---------------------------------------------------------------------------

SteelCall ==
  /\ material_call # << >>
  /\ material_call.fn = "steel.get_stress"
  /\ ~IsNone(material_call.result)

SteelStressOut == ValueOf(Val(material_call.result)[1])

Beta1Read ==
  /\ material_call # << >>
  /\ material_call.fn = "concrete.beta1"
  /\ ~IsNone(material_call.result)

\* The spellings of the two unit systems among UnitStrings.
SpelledUS == {"US", "us", "Us"}

SpelledSI == {"SI", "si", "sI"}

\* beta1 of both concretes lies within [0.65, 0.85] and the stronger concrete
\* has the smaller or the same beta1.
Beta1ClippedNonIncreasing(fc1, fc2, b1, b2) ==
  /\ RLe(<< 13, 20 >>, b1) /\ RLe(b1, << 17, 20 >>)
  /\ RLe(<< 13, 20 >>, b2) /\ RLe(b2, << 17, 20 >>)
  /\ RLe(fc1, fc2) => RLe(b2, b1)

\* Between two strengths beta1 falls by no more than the slope of the ramp
\* times their difference (0.05 per ksi, 0.05/7 per MPa). A function made of
\* constant and linear pieces has this property for all pairs of strengths
\* exactly when it has no jump where the pieces meet.
Beta1NoJump(slope, fc1, fc2, b1, b2) ==
  RLe(fc1, fc2) => RLe(RSub(b1, b2), RMul(slope, RSub(fc2, fc1)))

MaxBoundary == 1

default_tensile_strain == << 5, 1000 >>

\* The engine objects.
Instances == {1, 2}

\* What a fiber section answers: unique_mat_ids() and get_fiber_data(), the
\* area, the coordinates and the material of each fiber. The first section is
\* of concrete only, the second has a steel fiber.
FiberSections ==
  {[unique_mat_ids |-> << 1 >>,
    A |-> << 2, 2 >>, x |-> << 1, -1 >>, y |-> << 1, -1 >>, m |-> << 1, 1 >>],
   [unique_mat_ids |-> << 1, 2 >>,
    A |-> << 2, 2, 1 >>, x |-> << 1, -1, 0 >>, y |-> << 2, 0, -1 >>,
    m |-> << 1, 1, 2 >>]}

\* Boundary points (x, y, r) given to add_concrete_boundary and to
\* add_steel_boundary.
ConcretePoints == {[x |-> 1, y |-> 2, r |-> 0]}

SteelPoints == {[x |-> 0, y |-> -1, r |-> 1]}

\* Neutral axes given to compute_point: a point of the axis and its angle,
\* counted in quarter turns. The angle is zero, the one angle whose sine and
\* cosine math.sin and math.cos give exactly: compression is above the axis.
AxisPoints == {<< 0, -3 >>, << 0, 0 >>, << 0, 2 >>, << 0, 3 >>}

Angles == {0}

Sin(angle) == CASE angle = 0 -> 0 [] angle = 1 -> 1 [] angle = 2 -> 0 [] angle = 3 -> -1

Cos(angle) == CASE angle = 0 -> 1 [] angle = 1 -> 0 [] angle = 2 -> -1 [] angle = 3 -> 0

\* The signed perpendicular distance of (x, y) from the neutral axis:
\* a*x + b*y + c with a = sin, b = -cos, c = -sin*xpt + cos*ypt.
Distance(xpt, ypt, angle, x, y) ==
  Sin(angle) * x + (-Cos(angle)) * y + ((-Sin(angle)) * xpt + Cos(angle) * ypt)

Amin(S) == CHOOSE v \in S : \A w \in S : v <= w

Amax(S) == CHOOSE v \in S : \A w \in S : w <= v

\* extreme_concrete_compression_fiber: np.amin raises ValueError for an array
\* of size zero.
ExtremeConcreteCompressionFiber(self, xpt, ypt, angle) ==
  LET boundary == instances[self].concrete_boundary IN
    IF boundary = << >>
    THEN Raised("ValueError")
    ELSE Returned(Amin({Distance(xpt, ypt, angle, boundary[k].x, boundary[k].y)
                          - boundary[k].r : k \in 1..Len(boundary)}))

\* extreme_steel_tension_fiber: np.amax raises ValueError for an array of
\* size zero.
ExtremeSteelTensionFiber(self, xpt, ypt, angle) ==
  LET boundary == instances[self].steel_boundary IN
    IF boundary = << >>
    THEN Raised("ValueError")
    ELSE Returned(Amax({Distance(xpt, ypt, angle, boundary[k].x, boundary[k].y)
                          + boundary[k].r : k \in 1..Len(boundary)}))

\* extreme_steel_tensile_strain
ExtremeSteelTensileStrain(self, xpt, ypt, angle) ==
  LET yc == ExtremeConcreteCompressionFiber(self, xpt, ypt, angle)
      yt == ExtremeSteelTensionFiber(self, xpt, ypt, angle)
      ec == extreme_concrete_compression_strain
  IN IF ~HasReturned(yc) THEN yc
     ELSE IF ~HasReturned(yt) THEN yt
     ELSE IF ValueOf(yc) < 0
          THEN Returned(RMul(FromInt(ValueOf(yt)), RDiv(ec, FromInt(ValueOf(yc)))))
          ELSE Returned(default_tensile_strain)

\* The strain of each fiber with the extreme compression strain as the
\* strain of every fiber when no concrete is in compression.
FiberStrain_DefaultInCompression(data, xpt, ypt, angle, y_ecf) ==
  IF y_ecf < 0
  THEN [k \in 1..Len(data.m) |->
          RMul(RDiv(extreme_concrete_compression_strain, FromInt(y_ecf)),
               FromInt(Distance(xpt, ypt, angle, data.x[k], data.y[k])))]
  ELSE [k \in 1..Len(data.m) |-> extreme_concrete_compression_strain]

\* The strain of each fiber, lines 194-197 of compute_point.
FiberStrain(data, xpt, ypt, angle, y_ecf) ==
  IF y_ecf < 0
  THEN [k \in 1..Len(data.m) |->
          RMul(RDiv(extreme_concrete_compression_strain, FromInt(y_ecf)),
               FromInt(Distance(xpt, ypt, angle, data.x[k], data.y[k])))]
  ELSE [k \in 1..Len(data.m) |-> default_tensile_strain]

\* get_stress of whichever class the material is of.
GetStress(mat, strain) ==
  IF mat.class = "AciStrainCompatibilitySteelMaterial"
  THEN Returned(SteelGetStress(mat, strain))
  ELSE ConcreteGetStress(mat, strain)

\* The first material of uniq_mats, in order, for which line 203 raises:
\* KeyError if no material has that name, else what get_stress raises.
RECURSIVE StressLoop(_, _)
StressLoop(uniq_mats, strain) ==
  IF uniq_mats = << >>
  THEN Returned(TRUE)
  ELSE IF Head(uniq_mats) \notin DOMAIN materials
       THEN Raised("KeyError")
       ELSE IF ~HasReturned(GetStress(materials[Head(uniq_mats)], strain))
            THEN GetStress(materials[Head(uniq_mats)], strain)
            ELSE StressLoop(Tail(uniq_mats), strain)

\* The stress of each fiber after the loop of lines 199-203: zero for a fiber
\* whose material is not among uniq_mats.
FiberStress(data, strain) ==
  [k \in 1..Len(data.m) |->
     IF \E j \in 1..Len(data.uniq_mats) : data.uniq_mats[j] = data.m[k]
     THEN ValueOf(GetStress(materials[data.m[k]], << strain[k] >>))[1]
     ELSE FromInt(0)]

RECURSIVE RSum(_)
RSum(seq) == IF seq = << >> THEN FromInt(0) ELSE RAdd(Head(seq), RSum(Tail(seq)))

\* What compute_point leaves: its arguments, the locals y_ecf and strain as
\* far as it got, and what it returned, (P, Mx, My, et), or raised.
PointOf(self, xpt, ypt, angle) ==
  LET y_ecf == ExtremeConcreteCompressionFiber(self, xpt, ypt, angle)
      called == [self |-> self, xpt |-> xpt, ypt |-> ypt, angle |-> angle,
                 y_ecf |-> None, strain |-> None, outcome |-> None]
  IN IF ~HasReturned(y_ecf)
     THEN [called EXCEPT !.outcome = y_ecf]
     ELSE IF IsNone(instances[self].data)
     THEN [called EXCEPT !.y_ecf = Some(ValueOf(y_ecf)),
                         !.outcome = Raised("AttributeError")]
     ELSE
       LET data == Val(instances[self].data)
           strain == FiberStrain(data, xpt, ypt, angle, ValueOf(y_ecf))
           reached == [called EXCEPT !.y_ecf = Some(ValueOf(y_ecf)),
                                     !.strain = Some(strain)]
           loop == StressLoop(data.uniq_mats, strain)
           et == ExtremeSteelTensileStrain(self, xpt, ypt, angle)
       IN IF ~HasReturned(loop)
          THEN [reached EXCEPT !.outcome = loop]
          ELSE IF ~HasReturned(et)
          THEN [reached EXCEPT !.outcome = et]
          ELSE
            LET stress == FiberStress(data, strain)
                n == Len(data.m)
            IN [reached EXCEPT !.outcome = Returned(
                  [P |-> RSum([k \in 1..n |-> RMul(stress[k], FromInt(data.A[k]))]),
                   Mx |-> RSum([k \in 1..n |->
                                  RMul(RMul(stress[k], FromInt(data.A[k])),
                                       FromInt(-data.y[k]))]),
                   My |-> RSum([k \in 1..n |->
                                  RMul(RMul(stress[k], FromInt(data.A[k])),
                                       FromInt(data.x[k]))]),
                   et |-> ValueOf(et)])]

\* add_concrete_boundary(x, y, r) with the point stacked under the array of
\* the class, which every object reads.
AddConcreteBoundary_OnClass(self, pt) ==
  /\ instances # << >>
  /\ Len(instances[self].concrete_boundary) < MaxBoundary
  /\ instances' = [s \in Instances |->
                     [instances[s] EXCEPT !.concrete_boundary =
                        Append(instances[self].concrete_boundary, pt)]]
  /\ UNCHANGED << path, interaction, materials, point, material_call >>

\* add_concrete_boundary(x, y, r): the array of the object becomes the array
\* it read, its own or that of the class, with the point stacked under it.
\* The assignment of lines 111-113 binds an attribute of the object; the
\* arrays of the class stay empty.
AddConcreteBoundary(self, pt) ==
  /\ instances # << >>
  /\ Len(instances[self].concrete_boundary) < MaxBoundary
  /\ instances' = [instances EXCEPT ![self].concrete_boundary = Append(@, pt)]
  /\ UNCHANGED << path, interaction, materials, point, material_call >>

\* add_steel_boundary(x, y, r)
AddSteelBoundary(self, pt) ==
  /\ instances # << >>
  /\ Len(instances[self].steel_boundary) < MaxBoundary
  /\ instances' = [instances EXCEPT ![self].steel_boundary = Append(@, pt)]
  /\ UNCHANGED << path, interaction, materials, point, material_call >>

\* add_material(name, material_type, *args), type_name being
\* type(material_type).__name__: the entry of the dict of the class is set,
\* unless material_type is neither a material object nor a word for one, in
\* which case ValueError is raised and nothing changes.
AddMaterial(self, name, type_name, material_type, args) ==
  /\ instances # << >>
  /\ IF type_name \in {"AciStrainCompatibilitySteelMaterial",
                        "AciStrainCompatibilityConcreteMaterial"}
     THEN TRUE
     ELSE Lower(material_type) \in {"steel", "concrete"}
  /\ LET mat == IF type_name \in {"AciStrainCompatibilitySteelMaterial",
                                  "AciStrainCompatibilityConcreteMaterial"}
                THEN material_type
                ELSE IF Lower(material_type) = "steel"
                     THEN AciStrainCompatibilitySteelMaterial(args[1], args[2])
                     ELSE AciStrainCompatibilityConcreteMaterial(args[1], args[2])
     IN materials' = [n \in DOMAIN materials \cup {name} |->
                        IF n = name THEN mat ELSE materials[n]]
  /\ UNCHANGED << path, interaction, instances, point, material_call >>

\* build_data()
BuildData(self) ==
  /\ instances # << >>
  /\ instances' =
       [instances EXCEPT ![self].data =
          Some([uniq_mats |-> instances[self].fiber_section.unique_mat_ids,
                A |-> instances[self].fiber_section.A,
                x |-> instances[self].fiber_section.x,
                y |-> instances[self].fiber_section.y,
                m |-> instances[self].fiber_section.m])]
  /\ UNCHANGED << path, interaction, materials, point, material_call >>

\* compute_point(xpt, ypt, angle)
ComputePoint(self, xpt, ypt, angle) ==
  /\ instances # << >>
  /\ point' = PointOf(self, xpt, ypt, angle)
  /\ UNCHANGED << path, interaction, materials, instances, material_call >>

\* The engine on its own: two objects are built, each on a fiber section;
\* no object has a boundary array or fiber data of its own and the dict of
\* the class is empty.
EngineInit ==
  /\ PathUnused
  /\ interaction = Idle
  /\ materials = << >>
  /\ instances \in [Instances ->
                      {[fiber_section |-> fs, concrete_boundary |-> << >>,
                        steel_boundary |-> << >>, data |-> None] :
                         fs \in FiberSections}]
  /\ point = << >>
  /\ material_call = << >>

EngineNext ==
  \/ \E self \in Instances, pt \in ConcretePoints : AddConcreteBoundary(self, pt)
  \/ \E self \in Instances, pt \in SteelPoints : AddSteelBoundary(self, pt)
  \/ \E self \in Instances :
       AddMaterial(self, 1, "AciStrainCompatibilityConcreteMaterial",
                   AciStrainCompatibilityConcreteMaterial(FromInt(4), "US"), << >>)
  \/ \E self \in Instances :
       AddMaterial(self, 1, "str", "Concrete", << FromInt(4), "metric" >>)
  \/ \E self \in Instances :
       AddMaterial(self, 2, "str", "steel", << FromInt(2), FromInt(1000) >>)
  \/ \E self \in Instances : BuildData(self)
  \/ \E self \in Instances, pt \in AxisPoints, angle \in Angles :
       ComputePoint(self, pt[1], pt[2], angle)

EngineSpec == EngineInit /\ [][EngineNext]_vars


\* ---------------------------------------------------------------------------
\* C16
\* ---------------------------------------------------------------------------

\* The object has fiber data, every material of its fibers is a registered
\* concrete in US or SI units, it has a concrete boundary point and no steel
\* boundary point.
ConcreteOnly(self) ==
  /\ ~IsNone(instances[self].data)
  /\ \A k \in 1..Len(Val(instances[self].data).m) :
       /\ Val(instances[self].data).m[k] \in DOMAIN materials
       /\ materials[Val(instances[self].data).m[k]].class
            = "AciStrainCompatibilityConcreteMaterial"
       /\ materials[Val(instances[self].data).m[k]].units \in SpelledUS \cup SpelledSI
  /\ instances[self].concrete_boundary # << >>
  /\ instances[self].steel_boundary = << >>

\* -0.85 * fc * (area), summed over the fibers.
FullBlockForce(self) ==
  LET data == Val(instances[self].data) IN
    RSum([k \in 1..Len(data.m) |->
            RMul(RMul(<< -17, 20 >>, materials[data.m[k]].fc), FromInt(data.A[k]))])

\* Every fiber strain is at or beyond the strain ecr of its concrete.
EveryStrainBeyondEcr(self, strain) ==
  LET data == Val(instances[self].data) IN
    \A k \in 1..Len(data.m) :
      RLe(strain[k],
          RMul(<< -3, 1000 >>,
               RSub(FromInt(1), ValueOf(Beta1(materials[data.m[k]])))))

\* C16: a compute_point call on an object with concrete fibers and concrete
\* boundary points only, and no steel boundary point, returns a result, not
\* an error, with P = -0.85*fc*(total concrete area) when every fiber strain
\* is beyond ecr and P = 0 when the extreme concrete distance is >= 0.
C16_ConcreteOnlyPointReturnsBlockForce ==
  [][(point' # point /\ ConcreteOnly(point'.self)) =>
       /\ HasReturned(point'.outcome)
       /\ Val(point'.y_ecf) >= 0 => REq(ValueOf(point'.outcome).P, FromInt(0))
       /\ EveryStrainBeyondEcr(point'.self, Val(point'.strain))
            => REq(ValueOf(point'.outcome).P, FullBlockForce(point'.self))]_vars

\* ---------------------------------------------------------------------------
\* C17
\* ---------------------------------------------------------------------------

\* compute_point got as far as the strain of the fibers.
StrainsAssigned == point # << >> /\ ~IsNone(point.strain)

\* The signed distance of fiber k of the object of the call from the axis of
\* the call.
FiberDistance(k) ==
  Distance(point.xpt, point.ypt, point.angle,
           instances[point.self].fiber_section.x[k],
           instances[point.self].fiber_section.y[k])

LadderLength == IF try_smaller_steps THEN 8 ELSE 4

\* C21: in the proportional and in the lateral loop, the last attempt of the
\* ladder is made with the second robust algorithm (KrylovNewton) and with a
\* tolerance ten times the default one, 1e-2 against 1e-3, and no attempt of
\* an increment is made with a tolerance below the default one.
C21_LastAttemptLoosensTolerance ==
  (InLoop /\ attempts # << >>) =>
    /\ \A j \in 1..Len(attempts) : attempts[j].test >= -3
    /\ Len(attempts) = LadderLength =>
         /\ Last(attempts).algorithm = "KrylovNewton"
         /\ Last(attempts).test = -3 + 1


\* ---------------------------------------------------------------------------
\* C22
\* ---------------------------------------------------------------------------

\* The boundary arrays object s reads.
BoundariesSeenBy(s) ==
  << instances[s].concrete_boundary, instances[s].steel_boundary >>

\* C22 as stated: the boundary points and the materials are shared by the
\* engine objects, so every object reads the boundary points added through
\* any object, and a compute_point call on an object finds every material
\* registered through any object.
C22_RegistriesSharedAcrossInstances ==
  instances # << >> =>
    /\ \A s, t \in Instances : BoundariesSeenBy(s) = BoundariesSeenBy(t)
    /\ (point # << >> /\ point.outcome = Raised("KeyError")) =>
         \E j \in 1..Len(instances[point.self].fiber_section.unique_mat_ids) :
           instances[point.self].fiber_section.unique_mat_ids[j] \notin DOMAIN materials

\* C22, amended: the materials are shared by the engine objects and the
\* boundary points are not. A step that registers a material sets one entry
\* of the one dict, new or overwritten, and leaves the others; a
\* compute_point call on any object raises KeyError only when a material of
\* its fibers was registered through no object, and does raise it when that
\* is so for the first material it looks up. A step that adds a boundary
\* point changes the arrays of one object only, and a compute_point call on
\* an object fails for want of a concrete boundary point exactly when that
\* object itself has none.
C22_MaterialsSharedBoundariesPerInstance ==
  [][instances # << >> =>
       /\ \A s \in Instances :
            BoundariesSeenBy(s)' # BoundariesSeenBy(s) =>
              \A t \in Instances \ {s} : BoundariesSeenBy(t)' = BoundariesSeenBy(t)
       /\ materials' # materials =>
            \E name \in DOMAIN materials' :
              /\ DOMAIN materials' = DOMAIN materials \cup {name}
              /\ \A n \in DOMAIN materials \ {name} : materials'[n] = materials[n]
       /\ point' # point =>
            /\ IsNone(point'.y_ecf)
                 <=> instances[point'.self].concrete_boundary = << >>
            /\ point'.outcome = Raised("KeyError")
                 => \E j \in 1..Len(instances[point'.self].fiber_section.unique_mat_ids) :
                      instances[point'.self].fiber_section.unique_mat_ids[j]
                        \notin DOMAIN materials
            /\ (/\ instances[point'.self].concrete_boundary # << >>
                /\ ~IsNone(instances[point'.self].data)
                /\ instances[point'.self].fiber_section.unique_mat_ids[1]
                     \notin DOMAIN materials)
                 => point'.outcome = Raised("KeyError")]_vars

\* The first object has a concrete and a steel boundary point, the second has
\* fiber data and no boundary point; the materials are registered, and the
\* concrete was registered twice, last with the unsupported units. A
\* compute_point call on the second object has failed in the extreme
\* concrete fiber.
C22_Witness ==
  /\ instances # << >>
  /\ instances[1].concrete_boundary # << >>
  /\ instances[1].steel_boundary # << >>
  /\ BoundariesSeenBy(2) = << << >>, << >> >>
  /\ ~IsNone(instances[2].data)
  /\ DOMAIN materials = {1, 2}
  /\ materials[1].units = "metric"
  /\ point # << >>
  /\ point.self = 2
  /\ IsNone(point.y_ecf)
  /\ point.outcome = Raised("ValueError")


\* ---------------------------------------------------------------------------
\* C23
\* ---------------------------------------------------------------------------

\* The paths with no monitor enabled and one vertical step: a loop is left
\* only when a ladder is exhausted.
LadderInit ==
  /\ Init
  /\ percent_load_drop_limit = None
  /\ eigenvalue_limit = None
  /\ concrete_strain_limit = None
  /\ steel_strain_limit = None
  /\ num_steps_vertical = 1

\* The path runs to its end: it is one sequential call, and each of its steps
\* is taken once it can be.
LadderSpec == LadderInit /\ [][Next]_vars /\ WF_vars(Next)

\* The attempts of the logged increment are, in this order, the nominal one,
\* with try_smaller_steps the four at a reduced step, and three under a
\* robust algorithm.
AttemptKinds ==
  [j \in 1..Len(attempts) |->
     IF j = 1 THEN "nominal"
     ELSE IF attempts[j].algorithm # "Newton" THEN "algorithm"
     ELSE IF attempts[j].integrator.step # attempts[1].integrator.step THEN "reduced step"
     ELSE "nominal"]

LadderKinds ==
  IF try_smaller_steps
  THEN << "nominal", "reduced step", "reduced step", "reduced step", "reduced step",
          "algorithm", "algorithm", "algorithm" >>
  ELSE << "nominal", "algorithm", "algorithm", "algorithm" >>

\* An increment of a continuation loop is under way: its nominal attempt has
\* failed and its ladder is not exhausted.
InLadder == pc \in {"prop_loop", "lateral_loop"} /\ rung > 0

\* C23: an increment of the proportional or of the lateral loop makes at most
\* 8 solver calls with try_smaller_steps (1 nominal, 4 at a reduced step, 3
\* under a robust algorithm) and at most 4 without it (1 nominal and the same
\* 3); while fewer have been made and all have failed the loop goes on to
\* the next one, and when all of them have failed the exit message is
\* 'Analysis Failed' and the loop is left. An increment whose nominal attempt
\* failed always ends, by an attempt that converges or by 'Analysis Failed'.
C23_LadderBoundedAndExhaustionFails ==
  /\ [](InLoop /\ attempts # << >> =>
          /\ Len(attempts) <= LadderLength
          /\ LadderLength \in {4, 8}
          /\ IsPrefix(AttemptKinds, LadderKinds)
          /\ (AllFailed /\ Len(attempts) < LadderLength) => (InLadder /\ exit_message = "")
          /\ (AllFailed /\ Len(attempts) = LadderLength) =>
               (exit_message = "Analysis Failed" /\ ~InLadder /\ pc # "prop_loop"
                  /\ pc # "lateral_loop"))
  /\ (InLadder ~> (/\ rung = 0
                    /\ attempts # << >>
                    /\ (Last(attempts).ok \/ exit_message = "Analysis Failed")))

\* Without try_smaller_steps, the four attempts of an increment of the
\* lateral loop have all failed.
C23_Witness ==
  /\ ~Proportional
  /\ ~try_smaller_steps
  /\ InLoop
  /\ Len(attempts) = 4
  /\ AllFailed
  /\ exit_message = "Analysis Failed"


\* ---------------------------------------------------------------------------
\* C24
\* ---------------------------------------------------------------------------

\* The integrator controls the rotation of node 2 by displacement.
ControlsNode2Rotation(integrator) ==
  /\ integrator.type = "DisplacementControl"
  /\ integrator.node = 2
  /\ integrator.dof = 3

\* C24: in the lateral loop of the non-proportional path every solver attempt
\* of every increment is made under displacement control of node 2, degree
\* of freedom 3, as set when the lateral phase started, and between attempts
\* the solver stays under that control: only the size of the increment
\* changes.
C24_LateralControlNeverChanges ==
  (~Proportional /\ InLoop) =>
    /\ \A j \in 1..Len(attempts) : ControlsNode2Rotation(attempts[j].integrator)
    /\ pc = "lateral_loop" => ControlsNode2Rotation(solver.integrator)


====
